---- MODULE Spec2Model ----
(***************************************************************************)
(* A model of the synthetic corporate-data generator of the SEED           *)
(* dashboard (src/modules/data_generator.py) and of its callers.           *)
(*                                                                         *)
(* Numbers.  The program computes in floating point; the model computes    *)
(* the same expressions exactly, in fixed point:                           *)
(*   revenue_millions               millions                               *)
(*   base_giving_pct                1/100 of a percent                     *)
(*   env_giving_pct                 1/10000 of a percent                   *)
(*   env_giving_millions, giving_<cause>, local_giving_millions,           *)
(*   national_giving_millions       1/100000000 of a million ("cents")     *)
(*   transparency_score, environmental_impact_score   1/100 of a point     *)
(*   score_<metric>, esg_score      1/1000 of a point                      *)
(*   emissions_tons                 tons                                   *)
(*   env_remediation_expenses_millions   1/10000 of a million              *)
(*   marketing_claims_intensity     1/100 of a point                       *)
(*   latitude, longitude            1/10000 of a degree                    *)
(*   weights (Dirichlet), beta draw 1/100                                  *)
(* A random draw is an input of the operator that consumes it; the sets    *)
(* the draws are taken from hold the ends of each distribution's range     *)
(* and values beyond every clamp.                                          *)
(***************************************************************************)
EXTENDS Integers, Sequences, FiniteSets, TLC

VARIABLES
    i,                      \* loop index of generate_corporate_data
    company_data,           \* the record built by the current loop iteration
    selected_causes,        \* the causes drawn by the current loop iteration
    df,                     \* a company table (sequence of company records)
    incident_df,            \* the table generate_incident_data returned
    current_year,           \* datetime.now().year
    historical_data,        \* the dict generate_historical_data returned
    additional_dataframes,  \* the module-level registry
    geo_data,               \* the table generate_geographic_data returned
    num_companies,          \* the argument of the last call of generate_corporate_data
    history_noise,          \* the noise draws of generate_historical_data, by year
    pc,                     \* what the last call did, or the exception it raised
    marketing_df,           \* the table generate_marketing_data returned
    leaders_df,             \* the scored table of display_leaders_laggards_section
    session_state,          \* st.session_state of the app
    rng_state,              \* the state of the global numpy random generator
    clock,                  \* the wall clock, what datetime.now() reads
    calls                   \* the calls of generate_corporate_data made so far and their results

vars == <<i, company_data, selected_causes, df, incident_df, current_year, historical_data,
          additional_dataframes, geo_data, num_companies, history_noise, pc,
          marketing_df, leaders_df, session_state, rng_state, clock, calls>>

\* the variables of the marketing, scoring, session and seeding specifications
otherVars == <<marketing_df, leaders_df, session_state, rng_state, clock, calls>>

---------------------------------------------------------------------------
(* Python builtins *)

min(a, b) == IF b < a THEN b ELSE a

max(a, b) == IF b > a THEN b ELSE a

\* range(n)
range(n) == 0 .. (n - 1)

\* np.random.randint(low, high): the integers it can return
randint(low, high) == low .. (high - 1)

\* dict.update(other): other's entries win
dict_update(d, other) == other @@ d

\* d[key] = value
dict_set(d, key, value) == (key :> value) @@ d

\* a missing value of a numeric column
NaN == -999999

pd_notna(x) == x # NaN

\* pd.DataFrame(records): the columns are the keys of the records, so a table
\* built from an empty list has no column at all
DataFrame(records) ==
    [ columns |-> UNION { DOMAIN records[r] : r \in DOMAIN records }, rows |-> records ]

\* pd.DataFrame(columns=cols): an empty table with the given columns
EmptyDataFrame(cols) == [ columns |-> cols, rows |-> <<>> ]

RECURSIVE SumSeq(_)
SumSeq(s) == IF s = <<>> THEN 0 ELSE Head(s) + SumSeq(Tail(s))

IsInjective(s) == \A a, b \in DOMAIN s : a # b => s[a] # s[b]

---------------------------------------------------------------------------
(* Distribution tables of generate_corporate_data *)

states == <<
    [abbr |-> "CA", name |-> "California",     weight |-> 15, region |-> "West"],
    [abbr |-> "NY", name |-> "New York",       weight |-> 12, region |-> "Northeast"],
    [abbr |-> "TX", name |-> "Texas",          weight |-> 10, region |-> "South"],
    [abbr |-> "FL", name |-> "Florida",        weight |-> 8,  region |-> "South"],
    [abbr |-> "IL", name |-> "Illinois",       weight |-> 7,  region |-> "Midwest"],
    [abbr |-> "MA", name |-> "Massachusetts",  weight |-> 6,  region |-> "Northeast"],
    [abbr |-> "WA", name |-> "Washington",     weight |-> 6,  region |-> "West"],
    [abbr |-> "PA", name |-> "Pennsylvania",   weight |-> 5,  region |-> "Northeast"],
    [abbr |-> "OH", name |-> "Ohio",           weight |-> 5,  region |-> "Midwest"],
    [abbr |-> "GA", name |-> "Georgia",        weight |-> 5,  region |-> "South"],
    [abbr |-> "MI", name |-> "Michigan",       weight |-> 5,  region |-> "Midwest"],
    [abbr |-> "MN", name |-> "Minnesota",      weight |-> 4,  region |-> "Midwest"],
    [abbr |-> "CO", name |-> "Colorado",       weight |-> 4,  region |-> "West"],
    [abbr |-> "NC", name |-> "North Carolina", weight |-> 4,  region |-> "South"],
    [abbr |-> "NJ", name |-> "New Jersey",     weight |-> 4,  region |-> "Northeast"] >>

industries == <<
    [name |-> "Energy",             weight |-> 11, env_impact |-> "high"],
    [name |-> "Technology",         weight |-> 15, env_impact |-> "low"],
    [name |-> "Manufacturing",      weight |-> 15, env_impact |-> "high"],
    [name |-> "Retail",             weight |-> 10, env_impact |-> "medium"],
    [name |-> "Healthcare",         weight |-> 10, env_impact |-> "low"],
    [name |-> "Financial Services", weight |-> 8,  env_impact |-> "low"],
    [name |-> "Food & Beverage",    weight |-> 8,  env_impact |-> "medium"],
    [name |-> "Transportation",     weight |-> 6,  env_impact |-> "high"],
    [name |-> "Telecommunications", weight |-> 5,  env_impact |-> "low"],
    [name |-> "Chemical",           weight |-> 5,  env_impact |-> "high"],
    [name |-> "Construction",       weight |-> 7,  env_impact |-> "medium"] >>

\* transparency_factor in 1/100
sizes == <<
    [name |-> "Small ($10M-$100M)", weight |-> 4, min_rev |-> 10,    max_rev |-> 100,
     transparency_factor |-> 50],
    [name |-> "Medium ($100M-$1B)", weight |-> 3, min_rev |-> 100,   max_rev |-> 1000,
     transparency_factor |-> 70],
    [name |-> "Large ($1B-$10B)",   weight |-> 2, min_rev |-> 1000,  max_rev |-> 10000,
     transparency_factor |-> 85],
    [name |-> "Very Large (>$10B)", weight |-> 1, min_rev |-> 10000, max_rev |-> 50000,
     transparency_factor |-> 95] >>

\* size['name'].startswith(prefix), for the prefixes the program tests
startswith(name, prefix) ==
    CASE prefix = "Small"      -> name = "Small ($10M-$100M)"
      [] prefix = "Medium"     -> name = "Medium ($100M-$1B)"
      [] prefix = "Large"      -> name = "Large ($1B-$10B)"
      [] prefix = "Very Large" -> name = "Very Large (>$10B)"
      [] OTHER                 -> FALSE

environmental_causes == <<
    "Climate Change Mitigation", "Renewable Energy", "Habitat Conservation",
    "Biodiversity Protection", "Ocean Conservation", "Water Resource Protection",
    "Sustainable Agriculture", "Environmental Justice", "Environmental Education",
    "Waste Reduction & Recycling", "Air Quality Improvement",
    "Sustainable Transportation" >>

\* f"giving_{cause.lower().replace(' ', '_')}"
cause_key(cause) ==
    CASE cause = "Climate Change Mitigation"   -> "giving_climate_change_mitigation"
      [] cause = "Renewable Energy"            -> "giving_renewable_energy"
      [] cause = "Habitat Conservation"        -> "giving_habitat_conservation"
      [] cause = "Biodiversity Protection"     -> "giving_biodiversity_protection"
      [] cause = "Ocean Conservation"          -> "giving_ocean_conservation"
      [] cause = "Water Resource Protection"   -> "giving_water_resource_protection"
      [] cause = "Sustainable Agriculture"     -> "giving_sustainable_agriculture"
      [] cause = "Environmental Justice"       -> "giving_environmental_justice"
      [] cause = "Environmental Education"     -> "giving_environmental_education"
      [] cause = "Waste Reduction & Recycling" -> "giving_waste_reduction_&_recycling"
      [] cause = "Air Quality Improvement"     -> "giving_air_quality_improvement"
      [] cause = "Sustainable Transportation"  -> "giving_sustainable_transportation"

transparency_metrics == <<
    "Environmental Impact Disclosure", "Giving Strategy Documentation",
    "Goal Setting and Progress Tracking", "Third-Party Verification",
    "Stakeholder Engagement" >>

\* f"score_{metric.lower().replace(' ', '_')}"
metric_key(metric) ==
    CASE metric = "Environmental Impact Disclosure"    -> "score_environmental_impact_disclosure"
      [] metric = "Giving Strategy Documentation"      -> "score_giving_strategy_documentation"
      [] metric = "Goal Setting and Progress Tracking" -> "score_goal_setting_and_progress_tracking"
      [] metric = "Third-Party Verification"           -> "score_third-party_verification"
      [] metric = "Stakeholder Engagement"             -> "score_stakeholder_engagement"

---------------------------------------------------------------------------
(* Random sources.  Each operator gives the values the model lets the      *)
(* draw take.                                                              *)

\* np.random.uniform(low, high) at the point u/100 of the way from low to high
uniform(low, high, u) == low + ((high - low) * u) \div 100

UnitDraws == {0, 50, 100}

\* np.random.uniform(0.01, 0.5), in 1/100 of a percent
BaseGivingPctDraws == {1, 4}

\* np.random.normal(50, 15), in points
TransparencyNormalDraws == {-20, 50, 130}

\* np.random.normal(0, 1) for each of the five metrics, in 1/1000
VariationDraws == { <<-12000, -12000, -12000, -12000, -12000>>,
                    <<0, 0, 0, 0, 0>>,
                    <<12000, -1000, 500, 0, 12000>> }

\* np.random.gamma(shape=2.0, scale=10.0), in points
ImpactBaseDraws == {0, 15, 400}

\* np.random.normal(0, esg_variation/4), in 1/1000
EsgNoiseDraws == {-200000, 0, 200000}

\* np.random.beta(2, 3), in 1/100
BetaDraws == {0, 40, 100}

\* np.random.normal(0, 3) and np.random.normal(0, 5), in 1/10000 of a degree:
\* no noise, and the noise that is four standard deviations (latitude) or six
\* (longitude) away, which passes the bounds incidents are clamped to
LatNoiseDraws == {-120903, 0, 119099}

LonNoiseDraws == {-292872, 0, 307130}

\* first elements of the draws of np.random.choice the model takes
ChoiceStarts == {1, 6, 12}

\* np.random.choice(a, size=size, replace=True): a value may repeat
choice_with_replacement(a, size) ==
    { [j \in 1 .. size |-> a[st]] : st \in ChoiceStarts }

\* np.random.choice(a, size=size, replace=False): size distinct elements of a
choice_without_replacement(a, size) ==
    { [j \in 1 .. size |-> a[((st + j - 2) % Len(a)) + 1]] : st \in ChoiceStarts }

\* a weight vector that does not sum to 1
dirichlet_unnormalised(k) ==
    { [j \in 1 .. k |-> 100 \div (k + 1)] }

\* np.random.dirichlet(np.ones(k)): k non-negative weights that sum to 1, in 1/100
dirichlet(k) ==
    { [j \in 1 .. k |-> IF j = 1 THEN 100 - (k - 1) ELSE 1],
      [j \in 1 .. k |-> (100 \div k) + (IF j <= 100 % k THEN 1 ELSE 0)],
      [j \in 1 .. k |-> IF j = k THEN 100 ELSE 0] }

---------------------------------------------------------------------------
(* One iteration of the loop of generate_corporate_data, field by field *)

\* x * (hundredths / 100); every amount is a whole multiple of 100 cents
fraction_of(x, hundredths) == (x \div 100) * hundredths

revenue(size, u) == uniform(size.min_rev, size.max_rev, u)

\* in 1/10
giving_factor(industry) ==
    IF industry.env_impact = "high" THEN 15
    ELSE IF industry.env_impact = "medium" THEN 10
    ELSE 7

\* in 1/10
size_giving_factor(size) ==
    IF startswith(size.name, "Small") THEN 12
    ELSE IF startswith(size.name, "Medium") THEN 10
    ELSE IF startswith(size.name, "Large") THEN 8
    ELSE 6

env_giving_pct(base_giving_pct, industry, size) ==
    base_giving_pct * giving_factor(industry) * size_giving_factor(size)

\* revenue * (env_giving_pct / 100), in cents
env_giving(rev, giving_pct) == rev * giving_pct * 100

transparency_score_unclamped(z, size) == z * size.transparency_factor

transparency_score(z, size) ==
    max(0, min(10000, z * size.transparency_factor))

reporting_level(score) ==
    IF score < 2000 THEN "Minimal"
    ELSE IF score < 4000 THEN "Basic"
    ELSE IF score < 6000 THEN "Standard"
    ELSE IF score < 8000 THEN "Detailed"
    ELSE "Comprehensive"

detail_level(level) == IF level \in {"Detailed", "Comprehensive"} THEN 1 ELSE 0

\* base_score = transparency_score / 10, on the 0-10 scale in 1/1000
metric_score(score, variation) == max(0, min(10000, score + variation))

RECURSIVE transparency_metric_scores(_, _, _)
transparency_metric_scores(score, variations, m) ==
    IF m = 0 THEN <<>>
    ELSE dict_set(transparency_metric_scores(score, variations, m - 1),
                  metric_key(transparency_metrics[m]),
                  metric_score(score, variations[m]))

\* in 1/10
impact_factor(industry) ==
    IF industry.env_impact = "high" THEN 30
    ELSE IF industry.env_impact = "medium" THEN 18
    ELSE 10

\* in 1/10
size_impact_factor(size) ==
    IF startswith(size.name, "Small") THEN 7
    ELSE IF startswith(size.name, "Medium") THEN 10
    ELSE IF startswith(size.name, "Large") THEN 20
    ELSE 40

environmental_impact(impact_base, industry, size) ==
    min(10000, impact_base * impact_factor(industry) * size_impact_factor(size))

\* environmental_impact * 1000 * uniform(0.8, 1.2), the draw in 1/10
emissions(impact, u) == impact * u

\* environmental_impact * 0.3 * uniform(0.7, 1.3), the draw in 1/10
env_remediation(impact, u) == impact * 3 * u

esg_base == 60

esg_score(giving_pct, impact, transparency, noise) ==
    max(0, min(100000, esg_base * 1000 + giving_pct - impact + 2 * transparency + noise))

\* the values num_causes can take before it is capped
num_causes_draws(size) ==
    IF startswith(size.name, "Small") THEN randint(1, 4)
    ELSE IF startswith(size.name, "Medium") THEN randint(2, 6)
    ELSE IF startswith(size.name, "Large") THEN randint(3, 8)
    ELSE randint(4, Len(environmental_causes) + 1)

\* for cause, weight in zip(selected_causes, weights): cause_area_data[key] = env_giving * weight
RECURSIVE cause_area_data(_, _, _, _)
cause_area_data(causes, weights, giving, n) ==
    IF n = 0 THEN <<>>
    ELSE dict_set(cause_area_data(causes, weights, giving, n - 1),
                  cause_key(causes[n]),
                  fraction_of(giving, weights[n]))

local_giving(giving, local_giving_pct) == fraction_of(giving, local_giving_pct)

\* the local part is not taken off
national_giving_not_subtracted(giving, local) == giving

national_giving(giving, local) == giving - local

\* the dict appended to companies by iteration idx, for the draws d; the columns
\* no derived table reads (sic_code, address, city, water_usage_gallons, waste_tons,
\* energy_consumption_mwh, env_loss_contingencies_millions, date_of_filing,
\* marketing_vs_giving_gap) are left out
CompanyData(idx, d) ==
    LET state    == states[d.state_idx]
        industry == industries[d.industry_idx]
        size     == sizes[d.size_idx]
        rev      == revenue(size, d.u_revenue)
        pct      == env_giving_pct(d.base_giving_pct, industry, size)
        giving   == env_giving(rev, pct)
        tscore   == transparency_score(d.z_transparency, size)
        level    == reporting_level(tscore)
        impact   == environmental_impact(d.impact_base, industry, size)
        ncauses  == min(d.num_causes, Len(environmental_causes))
        local    == local_giving(giving, d.local_beta)
        row      == [ company_id |-> idx,
                      company_name |-> d.company_name,
                      state |-> state.abbr,
                      state_name |-> state.name,
                      region |-> state.region,
                      industry |-> industry.name,
                      size |-> size.name,
                      revenue_millions |-> rev,
                      env_giving_millions |-> giving,
                      env_giving_pct |-> pct,
                      transparency_score |-> tscore,
                      reporting_level |-> level,
                      detail_level |-> detail_level(level),
                      latitude |-> 370902 + d.lat_noise,
                      longitude |-> (-957129) + d.lon_noise,
                      environmental_impact_score |-> impact,
                      emissions_tons |-> emissions(impact, d.emissions_u),
                      env_remediation_expenses_millions |->
                          env_remediation(impact, d.remediation_u),
                      incident_count |-> d.incident_count,
                      esg_score |-> esg_score(pct, impact, tscore, d.esg_noise),
                      local_giving_pct |-> d.local_beta,
                      local_giving_millions |-> local,
                      national_giving_millions |-> national_giving(giving, local),
                      marketing_claims_intensity |-> d.marketing_claims_intensity ]
    IN  dict_update(
            dict_update(row, transparency_metric_scores(tscore, d.variation,
                                                        Len(transparency_metrics))),
            cause_area_data(d.selected_causes, d.weights, giving, ncauses))

---------------------------------------------------------------------------
(* Values of the variables a specification does not use *)

MaxCompanies == 2

MaxIncidents == 2

\* the years datetime.now().year is taken from
MinYear == 2024

MaxYear == 2025

NoHistory == [ transparency_history |-> DataFrame(<<>>), giving_history |-> DataFrame(<<>>),
               impact_history |-> DataFrame(<<>>) ]

IdleSampler == i = 0 /\ company_data = <<>> /\ selected_causes = <<>>

IdleTables == df = DataFrame(<<>>) /\ incident_df = DataFrame(<<>>)

IdleHistory == current_year = MinYear /\ historical_data = NoHistory /\ history_noise = <<>>

IdleRegistry ==
    additional_dataframes = <<>> /\ geo_data = DataFrame(<<>>) /\ num_companies = 0

IdleOthers ==
    /\ marketing_df = DataFrame(<<>>)
    /\ leaders_df = DataFrame(<<>>)
    /\ session_state = <<>>
    /\ rng_state = 0
    /\ clock = 0
    /\ calls = <<>>

---------------------------------------------------------------------------
(* SpecCompany: the body of the loop of generate_corporate_data, applied   *)
(* to one index and one set of draws.                                      *)

\* draws that leave every value in the middle of its range
NominalDraw(size_idx) ==
    LET ncauses == CHOOSE n \in num_causes_draws(sizes[size_idx]) :
                       \A o \in num_causes_draws(sizes[size_idx]) : n <= o
    IN  [ state_idx |-> 1, industry_idx |-> 2, size_idx |-> size_idx,
          company_name |-> "Global Tech Corp", u_revenue |-> 50, base_giving_pct |-> 1, z_transparency |-> 50,
          variation |-> <<0, 0, 0, 0, 0>>, impact_base |-> 15, incident_count |-> 0,
          esg_noise |-> 0, num_causes |-> ncauses,
          selected_causes |-> [j \in 1 .. ncauses |-> environmental_causes[j]],
          weights |-> [j \in 1 .. ncauses |-> IF j = 1 THEN 100 - (ncauses - 1) ELSE 1],
          local_beta |-> 40, lat_noise |-> 0, lon_noise |-> 0,
          emissions_u |-> 10, remediation_u |-> 10, marketing_claims_intensity |-> 5000 ]

\* the draws behind revenue, giving percentage and the scores
ScoreDraws ==
    { [NominalDraw(s) EXCEPT !.industry_idx = ind, !.u_revenue = u,
                             !.base_giving_pct = b, !.z_transparency = z,
                             !.variation = v, !.impact_base = g, !.esg_noise = e] :
        s \in DOMAIN sizes, ind \in DOMAIN industries, u \in UnitDraws,
        b \in BaseGivingPctDraws, z \in TransparencyNormalDraws, v \in VariationDraws,
        g \in ImpactBaseDraws, e \in EsgNoiseDraws }

\* the draws behind the split of the giving amount
GivingDraws ==
    UNION { UNION { { [NominalDraw(s) EXCEPT !.u_revenue = u, !.base_giving_pct = b,
                                             !.num_causes = nc, !.selected_causes = sel,
                                             !.weights = w, !.local_beta = beta] :
                        u \in UnitDraws, b \in BaseGivingPctDraws,
                        sel \in choice_without_replacement(
                                    environmental_causes, min(nc, Len(environmental_causes))),
                        w \in dirichlet(min(nc, Len(environmental_causes))),
                        beta \in BetaDraws } :
                    nc \in num_causes_draws(sizes[s]) } :
            s \in DOMAIN sizes }

\* the draws behind the location
LocationDraws ==
    { [NominalDraw(1) EXCEPT !.state_idx = st, !.lat_noise = la, !.lon_noise = lo] :
        st \in DOMAIN states, la \in LatNoiseDraws, lo \in LonNoiseDraws }

CompanyDraws == ScoreDraws \cup GivingDraws \cup LocationDraws

InitCompany ==
    /\ i \in range(MaxCompanies)
    /\ company_data = <<>>
    /\ selected_causes = <<>>
    /\ pc = "idle"
    /\ IdleTables /\ IdleHistory /\ IdleRegistry
    /\ IdleOthers

\* lines 774-1029 for index i: companies.append(company_data)
LoopBody ==
    /\ pc = "idle"
    /\ \E d \in CompanyDraws :
          /\ company_data' = CompanyData(i, d)
          /\ selected_causes' = d.selected_causes
    /\ pc' = "appended"
    /\ UNCHANGED <<i, df, incident_df, current_year, historical_data,
                   additional_dataframes, geo_data, num_companies, history_noise>>
    /\ UNCHANGED otherVars

NextCompany == LoopBody

SpecCompany == InitCompany /\ [][NextCompany]_vars

\* the size record of the company just built
SizeOf(row) == CHOOSE s \in { sizes[k] : k \in DOMAIN sizes } : s.name = row.size

MetricKeys == { metric_key(transparency_metrics[m]) : m \in DOMAIN transparency_metrics }

CauseKeys == { cause_key(environmental_causes[c]) : c \in DOMAIN environmental_causes }

RECURSIVE SumOver(_, _)
SumOver(f, keys) ==
    IF keys = {} THEN 0
    ELSE LET k == CHOOSE x \in keys : TRUE IN f[k] + SumOver(f, keys \ {k})

\* C2: every generated company has its revenue inside the range of its size
\* tier, transparency, impact and ESG scores inside [0,100], and each of the
\* five transparency sub-metric scores inside [0,10].
C2_ScoresInRange ==
    pc = "appended" =>
        /\ SizeOf(company_data).min_rev <= company_data.revenue_millions
        /\ company_data.revenue_millions <= SizeOf(company_data).max_rev
        /\ company_data.transparency_score \in 0 .. 10000
        /\ company_data.environmental_impact_score \in 0 .. 10000
        /\ company_data.esg_score \in 0 .. 100000
        /\ MetricKeys \subseteq DOMAIN company_data
        /\ \A k \in MetricKeys : company_data[k] \in 0 .. 10000

\* a company whose raw transparency draw lay above 100 and whose ESG sum lay below 0
C2_Witness ==
    /\ pc = "appended"
    /\ company_data.transparency_score = 10000
    /\ company_data.esg_score = 0
    /\ company_data.environmental_impact_score = 10000
    /\ company_data.revenue_millions = 50000

\* C3: the causes a company selected are pairwise distinct, the per-cause
\* amounts are non-negative and sum to env_giving_millions, and the number of
\* causes is 1..3 (Small), 2..5 (Medium), 3..7 (Large), 4..12 (Very Large).
C3_CauseSplit ==
    pc = "appended" =>
        LET keys == DOMAIN company_data \cap CauseKeys
            n    == Len(selected_causes)
        IN  /\ IsInjective(selected_causes)
            /\ keys = { cause_key(selected_causes[c]) : c \in DOMAIN selected_causes }
            /\ Cardinality(keys) = n
            /\ \A k \in keys : company_data[k] >= 0
            /\ SumOver(company_data, keys) = company_data.env_giving_millions
            /\ startswith(company_data.size, "Small") => n \in 1 .. 3
            /\ startswith(company_data.size, "Medium") => n \in 2 .. 5
            /\ startswith(company_data.size, "Large") => n \in 3 .. 7
            /\ startswith(company_data.size, "Very Large") => n \in 4 .. 12

\* a Very Large company that gives to all twelve causes
C3_Witness ==
    /\ pc = "appended"
    /\ startswith(company_data.size, "Very Large")
    /\ Len(selected_causes) = 12
    /\ company_data.env_giving_millions > 0
    /\ \A k \in CauseKeys : company_data[k] > 0

\* C4: local plus national giving equals env_giving_millions, the local
\* percentage lies in [0,100] and both amounts are non-negative.
C4_LocalNational ==
    pc = "appended" =>
        /\ company_data.local_giving_millions + company_data.national_giving_millions
               = company_data.env_giving_millions
        /\ company_data.local_giving_pct \in 0 .. 100
        /\ company_data.local_giving_millions >= 0
        /\ company_data.national_giving_millions >= 0

\* a company that gives part of its giving locally
C4_Witness ==
    /\ pc = "appended"
    /\ company_data.local_giving_pct = 40
    /\ company_data.local_giving_millions > 0
    /\ company_data.national_giving_millions > company_data.local_giving_millions

\* C18: the latitude and longitude of every generated company lie within
\* the continental-US bounds, latitude in [25, 49] and longitude in
\* [-125, -65], whatever the location noise (1/10000 of a degree).
C18_CompanyInBounds ==
    pc = "appended" =>
        /\ company_data.latitude \in 250000 .. 490000
        /\ company_data.longitude \in -1250000 .. -650000

---------------------------------------------------------------------------
(* generate_incident_data *)

\* np.random.normal(0, 0.5) for latitude and longitude, in 1/10000 of a degree
CoordinateJitterDraws == {-300000, 0, 300000}

\* the draws of one incident; np.random.random() in 1/100, uniform(0.05, 0.2) in 1/100
IncidentDraws ==
    [ severity : {1, 3, 5}, type_idx : {1}, lat_jitter : CoordinateJitterDraws,
      lon_jitter : {0}, days_ago : {0}, county : {"North Ridge County"}, distance : {4},
      ej_u : {0}, prompt_u : {50}, late : {FALSE}, ci_offset : randint(-1, 2),
      remediation_u : {5} ]

\* np.random.random() of the environmental-justice test, in 1/100
EjDraws == {0, 99}

\* incident_types of the four industry buckets
incident_types(industry) ==
    IF industry = "Energy" THEN
        <<"Oil Spill", "Gas Leak", "Emissions Exceedance", "Water Contamination",
          "Permit Violation">>
    ELSE IF industry = "Manufacturing" \/ industry = "Chemical" THEN
        <<"Chemical Spill", "Waste Disposal Violation", "Emissions Exceedance",
          "Water Contamination", "Permit Violation">>
    ELSE IF industry = "Transportation" THEN
        <<"Fuel Spill", "Emissions Exceedance", "Noise Violation",
          "Waste Disposal Violation", "Permit Violation">>
    ELSE
        <<"Waste Disposal Violation", "Permit Violation", "Emissions Exceedance",
          "Water Usage Violation", "Material Spill">>

impact_descriptions(severity) ==
    CASE severity = 1 -> "Minor incident with minimal environmental impact. Quickly contained and remediated."
      [] severity = 2 -> "Minor incident affecting a limited area. Required standard cleanup procedures."
      [] severity = 3 -> "Moderate incident with localized environmental effects. Required significant remediation."
      [] severity = 4 -> "Serious incident with substantial environmental impact. Extended remediation required."
      [] severity = 5 -> "Major incident with significant environmental damage. Long-term remediation ongoing."

\* the coordinate is left as drawn
incident_latitude_unclamped(latitude, jitter) == latitude + jitter

\* latitude = max(25, min(49, row['latitude'] + jitter))
incident_latitude(latitude, jitter) == max(250000, min(490000, latitude + jitter))

\* longitude = max(-125, min(-65, row['longitude'] + jitter))
incident_longitude(longitude, jitter) == max(-1250000, min(-650000, longitude + jitter))

\* np.random.random() < 0.2 + severity * 0.1, the draw in 1/100
in_ej_community(severity, u) == u < 20 + severity * 10

\* np.random.random() < 0.9 - severity * 0.1, the draw in 1/100
prompt_disclosure(severity, u) == u < 90 - severity * 10

\* np.random.randint(0, 5) if prompt_disclosure else np.random.randint(5, 90)
disclosure_lag(prompt, late) ==
    LET days == IF prompt THEN randint(0, 5) ELSE randint(5, 90)
    IN  CHOOSE x \in days : \A y \in days : IF late THEN y <= x ELSE x <= y

community_impact(severity, offset) == min(5, severity + offset)

\* in 1/10
remediation_multiplier(size) ==
    IF startswith(size, "Very Large") THEN 40
    ELSE IF startswith(size, "Large") THEN 20
    ELSE IF startswith(size, "Medium") THEN 10
    ELSE 5

\* the record appended for one incident of the company row, for the draws d
IncidentRecord(row, d, year) ==
    [ company_id |-> row.company_id,
      company_name |-> row.company_name,
      state |-> row.state,
      industry |-> row.industry,
      incident_type |-> incident_types(row.industry)[d.type_idx],
      severity |-> d.severity,
      latitude |-> incident_latitude(row.latitude, d.lat_jitter),
      longitude |-> incident_longitude(row.longitude, d.lon_jitter),
      date |-> [year |-> year, days_ago |-> d.days_ago],
      year |-> year,
      impact_description |-> impact_descriptions(d.severity),
      remediation_cost_millions |->
          d.severity * d.remediation_u * remediation_multiplier(row.size),
      county |-> d.county,
      distance_to_population_miles |-> d.distance,
      in_environmental_justice_community |-> in_ej_community(d.severity, d.ej_u),
      prompt_disclosure |-> prompt_disclosure(d.severity, d.prompt_u),
      disclosure_lag_days |->
          disclosure_lag(prompt_disclosure(d.severity, d.prompt_u), d.late),
      community_impact_rating |-> community_impact(d.severity, d.ci_offset) ]

\* the test skips companies with two or more incidents only
has_incidents_off_by_one(count) == pd_notna(count) /\ count > 1

\* pd.notna(row['incident_count']) and row['incident_count'] > 0
has_incidents(count) == pd_notna(count) /\ count > 0

\* every record appended twice
RECURSIVE IncidentsOfRowTwice(_, _, _, _)
IncidentsOfRowTwice(row, draws, year, n) ==
    IF n = 0 THEN <<>>
    ELSE Append(Append(IncidentsOfRowTwice(row, draws, year, n - 1),
                       IncidentRecord(row, draws[n - 1], year)),
                IncidentRecord(row, draws[n - 1], year))

\* the records of one company: for _ in range(int(row['incident_count']))
RECURSIVE IncidentsOfRow(_, _, _, _)
IncidentsOfRow(row, draws, year, n) ==
    IF n = 0 THEN <<>>
    ELSE Append(IncidentsOfRow(row, draws, year, n - 1),
                IncidentRecord(row, draws[n - 1], year))

RECURSIVE IncidentData(_, _, _, _)
IncidentData(rows, draws, year, n) ==
    IF n = 0 THEN <<>>
    ELSE IncidentData(rows, draws, year, n - 1) \o
         (IF has_incidents(rows[n].incident_count)
          THEN IncidentsOfRow(rows[n], draws, year, rows[n].incident_count)
          ELSE <<>>)

IncidentColumns ==
    { "company_id", "company_name", "state", "industry", "incident_type",
      "severity", "latitude", "longitude", "date", "year",
      "impact_description", "remediation_cost_millions", "county",
      "distance_to_population_miles", "in_environmental_justice_community",
      "prompt_disclosure", "disclosure_lag_days", "community_impact_rating" }

\* generate_incident_data(table): draws[k] are the draws of the k-th incident
\* of a company, year is datetime.now().year
generate_incident_data(table, draws, year) ==
    LET incident_data == IncidentData(table.rows, draws, year, Len(table.rows))
    IN  IF incident_data # <<>> THEN DataFrame(incident_data)
        ELSE EmptyDataFrame(IncidentColumns)

---------------------------------------------------------------------------
(* SpecIncident: generate_incident_data applied to a company table *)

\* where the company lies: south-west of the clamp box, inside it, north-east of it
LocationShapes ==
    { [state_idx |-> 1, industry_idx |-> 1, lat_noise |-> -170902, lon_noise |-> -342871],
      [state_idx |-> 2, industry_idx |-> 2, lat_noise |-> 0,       lon_noise |-> 0],
      [state_idx |-> 3, industry_idx |-> 8, lat_noise |-> 149098,  lon_noise |-> 357129] }

\* company idx as generate_corporate_data builds it, with the given incident_count
IncidentInputRow(idx, shape, count) ==
    [ CompanyData(idx, [NominalDraw(1) EXCEPT !.state_idx = shape.state_idx,
                                             !.industry_idx = shape.industry_idx,
                                             !.lat_noise = shape.lat_noise,
                                             !.lon_noise = shape.lon_noise])
      EXCEPT !["incident_count"] = count ]

IncidentCounts == {NaN} \cup (0 .. MaxIncidents)

IncidentInputTables ==
    UNION { { [k \in 1 .. n |-> IncidentInputRow(k - 1, f[k][1], f[k][2])] :
                f \in [1 .. n -> LocationShapes \X IncidentCounts] } :
            n \in 0 .. MaxCompanies }

InitIncident ==
    /\ df \in { DataFrame(t) : t \in IncidentInputTables }
    /\ incident_df = DataFrame(<<>>)
    /\ pc = "idle"
    /\ IdleSampler /\ IdleHistory /\ IdleRegistry
    /\ IdleOthers

GenerateIncidentData ==
    /\ pc = "idle"
    /\ \E base \in IncidentDraws, ejs \in [range(MaxIncidents) -> EjDraws] :
          incident_df' = generate_incident_data(
                             df, [k \in range(MaxIncidents) |-> [base EXCEPT !.ej_u = ejs[k]]],
                             current_year)
    /\ pc' = "returned"
    /\ UNCHANGED <<i, company_data, selected_causes, df, current_year, historical_data,
                   additional_dataframes, geo_data, num_companies, history_noise>>
    /\ UNCHANGED otherVars

NextIncident == GenerateIncidentData

SpecIncident == InitIncident /\ [][NextIncident]_vars

\* the incident rows of one company
IncidentsOf(company_id) ==
    { r \in DOMAIN incident_df.rows : incident_df.rows[r].company_id = company_id }

ExpectedIncidents(row) ==
    IF row.incident_count = NaN \/ row.incident_count = 0 THEN 0 ELSE row.incident_count

\* C5: generate_incident_data emits for each company exactly incident_count
\* rows carrying its company_id and state, none for a count that is zero or
\* missing, and an empty table with the 18 incident columns when there is no
\* incident at all.
C5_IncidentCount ==
    pc = "returned" =>
        /\ \A c \in DOMAIN df.rows :
              /\ Cardinality(IncidentsOf(df.rows[c].company_id))
                     = ExpectedIncidents(df.rows[c])
              /\ \A r \in IncidentsOf(df.rows[c].company_id) :
                     incident_df.rows[r].state = df.rows[c].state
        /\ \A r \in DOMAIN incident_df.rows :
              \E c \in DOMAIN df.rows : incident_df.rows[r].company_id = df.rows[c].company_id
        /\ (\A c \in DOMAIN df.rows : ExpectedIncidents(df.rows[c]) = 0) =>
              /\ incident_df.rows = <<>>
              /\ incident_df.columns = IncidentColumns
              /\ Cardinality(incident_df.columns) = 18

\* a table with a company without a count and a company with two incidents
C5_Witness ==
    /\ pc = "returned"
    /\ Len(df.rows) = 2
    /\ df.rows[1].incident_count = NaN
    /\ df.rows[2].incident_count = 2
    /\ Len(incident_df.rows) = 2
    /\ incident_df.rows[1].in_environmental_justice_community
    /\ ~incident_df.rows[2].in_environmental_justice_community

\* C23: every incident has a severity in 1..5 and a community_impact_rating
\* in 1..5, for every severity and every random offset added to it.
C23_SeverityAndRating ==
    pc = "returned" =>
        \A r \in DOMAIN incident_df.rows :
            /\ incident_df.rows[r].severity \in 1 .. 5
            /\ incident_df.rows[r].community_impact_rating \in 1 .. 5

\* what the rating does satisfy: it is at most 5 and within one of the
\* severity, so at least 0
RatingWithinOneOfSeverity ==
    pc = "returned" =>
        \A r \in DOMAIN incident_df.rows :
            /\ incident_df.rows[r].severity \in 1 .. 5
            /\ incident_df.rows[r].community_impact_rating \in 0 .. 5
            /\ incident_df.rows[r].community_impact_rating
                   \in (incident_df.rows[r].severity - 1) .. (incident_df.rows[r].severity + 1)

\* C6: every incident has its latitude in [25,49] and its longitude in
\* [-125,-65], wherever the company lies and whatever the jitter.
C6_IncidentInBounds ==
    pc = "returned" =>
        \A r \in DOMAIN incident_df.rows :
            /\ incident_df.rows[r].latitude \in 250000 .. 490000
            /\ incident_df.rows[r].longitude \in (-1250000) .. (-650000)

\* an incident of a company north-east of the box, clamped onto its corner
C6_Witness ==
    /\ pc = "returned"
    /\ \E r \in DOMAIN incident_df.rows, c \in DOMAIN df.rows :
          /\ incident_df.rows[r].company_id = df.rows[c].company_id
          /\ df.rows[c].latitude > 490000
          /\ df.rows[c].longitude > -650000
          /\ incident_df.rows[r].latitude = 490000
          /\ incident_df.rows[r].longitude = -650000

---------------------------------------------------------------------------
(* generate_historical_data *)
(* History values keep the factors as integers:                            *)
(*   transparency_score             1/10000 of a point                     *)
(*   env_giving_millions            1/10000 of a dollar                    *)
(*   revenue_millions               1/10000 of a million                   *)
(*   env_giving_pct                 1/10000 of a percent, rounded down     *)
(*   environmental_impact_score     1/1000000 of a point                   *)
(*   emissions_tons                 1/10000 of a ton                       *)
(*   env_remediation_expenses_millions   1/20000000 of a million           *)

\* list(range(2020, datetime.now().year + 1))
years(now_year) == [k \in 1 .. (now_year - 2019) |-> 2019 + k]

\* year_factor = (year - 2019) * 0.05, in 1/100
transparency_year_factor(year) == (year - 2019) * 5

\* current_score * (1 - year_factor)
transparency_before_noise(current_score, year) ==
    current_score * (100 - transparency_year_factor(year))

\* max(0, min(100, current_score * (1 - year_factor) + noise))
historical_score(current_score, year, noise) ==
    max(0, min(1000000, transparency_before_noise(current_score, year) + noise))

\* the levels with the thresholds themselves in the lower level
historical_reporting_level_inclusive(score) ==
    IF score <= 200000 THEN "Minimal"
    ELSE IF score <= 400000 THEN "Basic"
    ELSE IF score <= 600000 THEN "Standard"
    ELSE IF score <= 800000 THEN "Detailed"
    ELSE "Comprehensive"

historical_reporting_level(score) ==
    IF score < 200000 THEN "Minimal"
    ELSE IF score < 400000 THEN "Basic"
    ELSE IF score < 600000 THEN "Standard"
    ELSE IF score < 800000 THEN "Detailed"
    ELSE "Comprehensive"

\* year_factor = 1 - ((year - 2019) * 0.07), in 1/100
giving_year_factor(year) == 100 - ((year - 2019) * 7)

\* current_giving * year_factor, in 1/100 of a dollar
giving_before_noise(current_giving, year) ==
    (current_giving \div 100) * giving_year_factor(year)

\* current_giving * year_factor * uniform(0.9, 1.1), the draw in 1/100
historical_giving_value(current_giving, year, u) ==
    giving_before_noise(current_giving, year) * u

\* current_revenue * (1 - ((year - 2019) * 0.04)) * uniform(0.95, 1.05)
historical_revenue(current_revenue, year, u) ==
    current_revenue * (100 - ((year - 2019) * 4)) * u

historical_giving_pct(giving_value, rev) ==
    IF rev > 0 THEN giving_value \div rev ELSE 0

\* year_factor = 1 - ((year - 2019) * 0.02), in 1/100
impact_year_factor(year) == 100 - ((year - 2019) * 2)

\* current_impact * year_factor, in 1/10000 of a point
impact_before_noise(current_impact, year) == current_impact * impact_year_factor(year)

\* current_impact * year_factor * uniform(0.95, 1.05), the draw in 1/100
historical_impact_value(current_impact, year, u) ==
    impact_before_noise(current_impact, year) * u

\* current_emissions * year_factor * uniform(0.9, 1.1), the draw in 1/100
historical_emissions(current_emissions, year, u) ==
    current_emissions * impact_year_factor(year) * u

\* current_remediation * year_factor * uniform(0.85, 1.15), the draw in 1/20
historical_remediation(current_remediation, year, u) ==
    current_remediation * impact_year_factor(year) * u

TransparencyRecord(row, year, noise) ==
    LET score == historical_score(row.transparency_score, year, noise.normal)
    IN  [ company_id |-> row.company_id,
          company_name |-> row.company_name,
          industry |-> row.industry,
          year |-> year,
          transparency_score |-> score,
          reporting_level |-> historical_reporting_level(score) ]

GivingRecord(row, year, noise) ==
    LET giving_value == historical_giving_value(row.env_giving_millions, year, noise.giving_u)
        rev          == historical_revenue(row.revenue_millions, year, noise.revenue_u)
    IN  [ company_id |-> row.company_id,
          company_name |-> row.company_name,
          industry |-> row.industry,
          year |-> year,
          env_giving_millions |-> giving_value,
          revenue_millions |-> rev,
          env_giving_pct |-> historical_giving_pct(giving_value, rev) ]

ImpactRecord(row, year, noise) ==
    [ company_id |-> row.company_id,
      company_name |-> row.company_name,
      industry |-> row.industry,
      year |-> year,
      environmental_impact_score |->
          historical_impact_value(row.environmental_impact_score, year, noise.impact_u),
      emissions_tons |-> historical_emissions(row.emissions_tons, year, noise.emissions_u),
      env_remediation_expenses_millions |->
          historical_remediation(row.env_remediation_expenses_millions, year,
                                 noise.remediation_u) ]

HistoryRecord(kind, row, year, noise) ==
    CASE kind = "transparency" -> TransparencyRecord(row, year, noise)
      [] kind = "giving"       -> GivingRecord(row, year, noise)
      [] kind = "impact"       -> ImpactRecord(row, year, noise)

\* for year in years: append the record of one company
RECURSIVE HistoryOfRow(_, _, _, _, _)
HistoryOfRow(kind, row, ys, noise, n) ==
    IF n = 0 THEN <<>>
    ELSE Append(HistoryOfRow(kind, row, ys, noise, n - 1),
                HistoryRecord(kind, row, ys[n], noise[ys[n]]))

\* for _, row in df.iterrows(): the records of every company
RECURSIVE HistoryRecords(_, _, _, _, _)
HistoryRecords(kind, rows, ys, noise, n) ==
    IF n = 0 THEN <<>>
    ELSE HistoryRecords(kind, rows, ys, noise, n - 1) \o
         HistoryOfRow(kind, rows[n], ys, noise, Len(ys))

\* the three tables built by lines 263-371
HistoryTables(table, noise, now_year) ==
    LET ys == years(now_year)
    IN  [ transparency_history |->
              DataFrame(HistoryRecords("transparency", table.rows, ys, noise, Len(table.rows))),
          giving_history |->
              DataFrame(HistoryRecords("giving", table.rows, ys, noise, Len(table.rows))),
          impact_history |->
              DataFrame(HistoryRecords("impact", table.rows, ys, noise, Len(table.rows))) ]

\* table.groupby(keys) raises KeyError for a key that is no column
groupby_raises(table, keys) == ~(keys \subseteq table.columns)

RECURSIVE SetToSeq(_)
SetToSeq(S) ==
    IF S = {} THEN <<>>
    ELSE LET x == CHOOSE y \in S : TRUE IN <<x>> \o SetToSeq(S \ {x})

\* the groups of table.groupby(['industry', 'year'])
IndustryYearGroups(table) ==
    { <<table.rows[r].industry, table.rows[r].year>> : r \in DOMAIN table.rows }

RECURSIVE SumColumn(_, _, _)
SumColumn(rows, members, column) ==
    IF members = {} THEN 0
    ELSE LET r == CHOOSE x \in members : TRUE
         IN  rows[r][column] + SumColumn(rows, members \ {r}, column)

\* table.groupby(['industry', 'year'])[column].sum() / .mean(), renamed to name;
\* a mean is rounded down
industry_yearly(table, column, name, how) ==
    LET groups == SetToSeq(IndustryYearGroups(table))
        members(g) == { r \in DOMAIN table.rows :
                          <<table.rows[r].industry, table.rows[r].year>> = g }
        total(g) == SumColumn(table.rows, members(g), column)
    IN  [ columns |-> {"industry", "year", name},
          rows |-> [ g \in DOMAIN groups |->
                       ("industry" :> groups[g][1]) @@ ("year" :> groups[g][2]) @@
                       (name :> IF how = "sum" THEN total(groups[g])
                                ELSE total(groups[g]) \div Cardinality(members(groups[g]))) ] ]

\* the entries lines 376-388 store in additional_dataframes
IndustryYearlyTables(h) ==
    [ industry_yearly_transparency |->
          industry_yearly(h.transparency_history, "transparency_score",
                          "avg_transparency_score", "mean"),
      industry_yearly_giving |->
          industry_yearly(h.giving_history, "env_giving_millions",
                          "total_industry_giving_millions", "sum"),
      industry_yearly_impact |->
          industry_yearly(h.impact_history, "environmental_impact_score",
                          "avg_environmental_impact", "mean") ]

\* generate_historical_data(table) raises KeyError at the first groupby when
\* the history tables have no column, that is when table has no row
historical_data_raises(table, noise, now_year) ==
    groupby_raises(HistoryTables(table, noise, now_year).transparency_history,
                   {"industry", "year"})

---------------------------------------------------------------------------
(* SpecHistory: generate_historical_data applied to a company table *)

\* the noise draws of one year: np.random.normal(0, 5) in 1/10000 of a point,
\* the uniform factors in 1/100 (remediation in 1/20)
HistoryNoiseDraws ==
    { [normal |-> 0,        giving_u |-> 100, revenue_u |-> 100, impact_u |-> 100,
       emissions_u |-> 100, remediation_u |-> 20],
      [normal |-> -2000000, giving_u |-> 90,  revenue_u |-> 95,  impact_u |-> 95,
       emissions_u |-> 90,  remediation_u |-> 17],
      [normal |-> 2000000,  giving_u |-> 110, revenue_u |-> 105, impact_u |-> 105,
       emissions_u |-> 110, remediation_u |-> 23] }

NoNoise == CHOOSE d \in HistoryNoiseDraws : d.normal = 0

\* the draws of every year: one record for the even years, one for the odd ones
HistoryNoise(now_year) ==
    { [y \in 2020 .. now_year |-> IF y % 2 = 0 THEN a ELSE b] :
        a \in HistoryNoiseDraws, b \in HistoryNoiseDraws }

\* companies with transparency and impact at 0, in the middle and at 100
HistoryShapes ==
    { [z_transparency |-> -20, impact_base |-> 0,   industry_idx |-> 1],
      [z_transparency |-> 50,  impact_base |-> 15,  industry_idx |-> 2],
      [z_transparency |-> 250, impact_base |-> 400, industry_idx |-> 2] }

HistoryInputRow(idx, shape) ==
    CompanyData(idx, [NominalDraw(1) EXCEPT !.z_transparency = shape.z_transparency,
                                            !.impact_base = shape.impact_base,
                                            !.industry_idx = shape.industry_idx])

HistoryInputTables ==
    UNION { { [k \in 1 .. n |-> HistoryInputRow(k - 1, f[k])] :
                f \in [1 .. n -> HistoryShapes] } :
            n \in 0 .. MaxCompanies }

InitHistory ==
    /\ df \in { DataFrame(t) : t \in HistoryInputTables }
    /\ current_year \in MinYear .. MaxYear
    /\ history_noise \in HistoryNoise(current_year)
    /\ historical_data = NoHistory
    /\ incident_df = DataFrame(<<>>)
    /\ pc = "idle"
    /\ IdleSampler /\ IdleRegistry
    /\ IdleOthers

GenerateHistoricalData ==
    /\ pc = "idle"
    /\ IF historical_data_raises(df, history_noise, current_year)
       THEN /\ pc' = "KeyError: 'industry'"
            /\ UNCHANGED <<historical_data, additional_dataframes>>
       ELSE LET h == HistoryTables(df, history_noise, current_year)
            IN  /\ historical_data' = h
                /\ additional_dataframes' =
                       dict_update(additional_dataframes, IndustryYearlyTables(h))
                /\ pc' = "returned"
    /\ UNCHANGED <<i, company_data, selected_causes, df, incident_df, current_year,
                   geo_data, num_companies, history_noise>>
    /\ UNCHANGED otherVars

NextHistory == GenerateHistoricalData

SpecHistory == InitHistory /\ [][NextHistory]_vars

\* the rows of a history table for one company and one year
HistoryRowsOf(table, company_id, year) ==
    { r \in DOMAIN table.rows :
        table.rows[r].company_id = company_id /\ table.rows[r].year = year }

\* C7: in each history table the row of year == current_year carries, before
\* noise, the company's live value (the year factor at current_year is 1).
\* Checked on the years whose noise draws change nothing.
C7_CurrentYearIsLive ==
    (pc = "returned" /\ history_noise[current_year] = NoNoise) =>
        \A c \in DOMAIN df.rows :
            LET row == df.rows[c]
                th  == historical_data.transparency_history
                gh  == historical_data.giving_history
                ih  == historical_data.impact_history
            IN  /\ \A r \in HistoryRowsOf(th, row.company_id, current_year) :
                       th.rows[r].transparency_score = row.transparency_score * 100
                /\ \A r \in HistoryRowsOf(gh, row.company_id, current_year) :
                       /\ gh.rows[r].env_giving_millions = row.env_giving_millions * 100
                       /\ gh.rows[r].revenue_millions = row.revenue_millions * 10000
                /\ \A r \in HistoryRowsOf(ih, row.company_id, current_year) :
                       ih.rows[r].environmental_impact_score
                           = row.environmental_impact_score * 10000

\* what the tables hold whenever generate_historical_data returns: one row
\* for every company and every year of 2020..current_year, and no other row
HistoryRowsWhenReturned ==
    pc = "returned" =>
        \A name \in {"transparency_history", "giving_history", "impact_history"} :
            LET table == historical_data[name]
            IN  /\ \A c \in DOMAIN df.rows, y \in 2020 .. current_year :
                       Cardinality(HistoryRowsOf(table, df.rows[c].company_id, y)) = 1
                /\ \A r \in DOMAIN table.rows :
                       /\ table.rows[r].year \in 2020 .. current_year
                       /\ \E c \in DOMAIN df.rows :
                              table.rows[r].company_id = df.rows[c].company_id
                /\ Len(table.rows) = Len(df.rows) * (current_year - 2019)

\* C8: generate_historical_data(df) returns three tables, each with exactly
\* one row for every (company_id, year) pair with year in 2020..current_year
\* and no other rows, so each has len(df) * (current_year - 2019) rows.
C8_OneRowPerCompanyYear ==
    /\ pc \in {"idle", "returned"}
    /\ HistoryRowsWhenReturned

\* C19: every value written to a history table lies in the valid range of
\* its field: transparency_score and environmental_impact_score in [0, 100]
\* (1/10000 and 1/1000000 of a point), env_giving_millions, revenue_millions,
\* emissions_tons and env_remediation_expenses_millions non-negative, for
\* every company, every year of 2020..current_year and every noise.
C19_HistoryInRange ==
    pc = "returned" =>
        /\ \A r \in DOMAIN historical_data.transparency_history.rows :
               historical_data.transparency_history.rows[r].transparency_score
                   \in 0 .. 1000000
        /\ \A r \in DOMAIN historical_data.giving_history.rows :
               /\ historical_data.giving_history.rows[r].env_giving_millions >= 0
               /\ historical_data.giving_history.rows[r].revenue_millions >= 0
        /\ \A r \in DOMAIN historical_data.impact_history.rows :
               LET row == historical_data.impact_history.rows[r]
               IN  /\ row.environmental_impact_score \in 0 .. 100000000
                   /\ row.emissions_tons >= 0
                   /\ row.env_remediation_expenses_millions >= 0

\* all of the above but the upper bound of environmental_impact_score
HistoryInRangeButImpact ==
    pc = "returned" =>
        /\ \A r \in DOMAIN historical_data.transparency_history.rows :
               historical_data.transparency_history.rows[r].transparency_score
                   \in 0 .. 1000000
        /\ \A r \in DOMAIN historical_data.giving_history.rows :
               /\ historical_data.giving_history.rows[r].env_giving_millions >= 0
               /\ historical_data.giving_history.rows[r].revenue_millions >= 0
        /\ \A r \in DOMAIN historical_data.impact_history.rows :
               LET row == historical_data.impact_history.rows[r]
               IN  /\ row.environmental_impact_score >= 0
                   /\ row.emissions_tons >= 0
                   /\ row.env_remediation_expenses_millions >= 0

\* C22: in the transparency history the score before noise of an earlier
\* year is at most that of a later year, for every company and every pair of
\* years of 2020..current_year.  Read on the rows of the years whose normal
\* draw is 0, where the stored score is the score before noise.
C22_EarlierYearsLower ==
    pc = "returned" =>
        \A c \in DOMAIN df.rows, y1, y2 \in 2020 .. current_year :
            (y1 < y2 /\ history_noise[y1].normal = 0 /\ history_noise[y2].normal = 0) =>
                LET th == historical_data.transparency_history
                IN  \A r1 \in HistoryRowsOf(th, df.rows[c].company_id, y1),
                       r2 \in HistoryRowsOf(th, df.rows[c].company_id, y2) :
                        /\ th.rows[r1].transparency_score
                               = transparency_before_noise(df.rows[c].transparency_score, y1)
                        /\ th.rows[r1].transparency_score <= th.rows[r2].transparency_score

\* what the code computes: the score before noise never rises from one year
\* to a later one
EarlierYearsNotLower ==
    pc = "returned" =>
        \A c \in DOMAIN df.rows, y1, y2 \in 2020 .. current_year :
            y1 < y2 =>
                transparency_before_noise(df.rows[c].transparency_score, y1)
                    >= transparency_before_noise(df.rows[c].transparency_score, y2)

---------------------------------------------------------------------------
(* generate_marketing_data *)

claim_types == <<
    "Carbon Neutrality/Net Zero", "Sustainable Products/Services",
    "Environmental Leadership", "Resource Conservation",
    "Responsible Supply Chain", "Eco-Friendly Practices" >>

channels == <<
    "Corporate Website", "Annual Report", "Press Release",
    "Social Media", "Advertisement", "Product Packaging" >>

\* one claim more than there are claim types
num_claims_past_vocabulary == randint(2, Len(claim_types) + 2)

\* the values num_claims can take
num_claims_draws == randint(2, min(7, Len(claim_types) + 1))

\* the draws of the claims of one company: the uniform factors in 1/100
MarketingDraws ==
    UNION { { [ num_claims |-> nc, selected_claim_types |-> sel, intensity_u |-> u[1],
                substantiation_u |-> u[2], selected_channels |-> ch, days_ago |-> 0 ] :
                sel \in choice_without_replacement(claim_types, nc),
                ch \in choice_without_replacement(channels, num_channels),
                u \in {<<70, 130>>, <<100, 100>>, <<130, 70>>} } :
            nc \in num_claims_draws, num_channels \in randint(1, Len(channels) + 1) }

abs(x) == IF x < 0 THEN 0 - x ELSE x

\* min(100, max(0, marketing_intensity * uniform(0.7, 1.3))), in 1/100 of a point
claim_intensity(marketing_intensity, u) ==
    min(10000, max(0, (marketing_intensity * u) \div 100))

\* 100 - abs(marketing_intensity - env_giving * 20), in 1/100 of a point
base_substantiation(marketing_intensity, giving) ==
    10000 - abs(marketing_intensity - (giving \div 50000))

\* the score without its bounds
substantiation_score_unclamped(marketing_intensity, giving, u) ==
    (base_substantiation(marketing_intensity, giving) * u) \div 100

substantiation_score(marketing_intensity, giving, u) ==
    min(10000, max(0, (base_substantiation(marketing_intensity, giving) * u) \div 100))

\* the record appended for one claim; claim_date is the number of days before
\* now, channels the sequence of names that ', '.join makes one string of
MarketingRecord(row, claim_type, d) ==
    LET intensity == claim_intensity(row.marketing_claims_intensity, d.intensity_u)
        substantiation == substantiation_score(row.marketing_claims_intensity,
                                               row.env_giving_millions, d.substantiation_u)
    IN  [ company_id |-> row.company_id,
          company_name |-> row.company_name,
          industry |-> row.industry,
          claim_type |-> claim_type,
          claim_intensity |-> intensity,
          substantiation_score |-> substantiation,
          channels |-> d.selected_channels,
          claim_date |-> d.days_ago,
          greenwashing_risk |-> max(0, intensity - substantiation) ]

RECURSIVE MarketingData(_, _, _)
MarketingData(rows, d, n) ==
    IF n = 0 THEN <<>>
    ELSE MarketingData(rows, d, n - 1) \o
         [ c \in 1 .. d.num_claims |->
             MarketingRecord(rows[n], d.selected_claim_types[c], d) ]

generate_marketing_data(table, d) == DataFrame(MarketingData(table.rows, d, Len(table.rows)))

---------------------------------------------------------------------------
(* generate_cause_area_summary *)

\* col.startswith('giving_') and 'pct' not in col and 'millions' not in col,
\* over the column names generate_corporate_data produces
is_cause_column(col) ==
    \E k \in DOMAIN environmental_causes : col = cause_key(environmental_causes[k])

cause_columns(table) == SetToSeq({ col \in table.columns : is_cause_column(col) })

\* cause_col.replace('giving_', '').replace('_', ' ').title()
cause_name(cause_col) ==
    CASE cause_col = "giving_climate_change_mitigation"   -> "Climate Change Mitigation"
      [] cause_col = "giving_renewable_energy"            -> "Renewable Energy"
      [] cause_col = "giving_habitat_conservation"        -> "Habitat Conservation"
      [] cause_col = "giving_biodiversity_protection"     -> "Biodiversity Protection"
      [] cause_col = "giving_ocean_conservation"          -> "Ocean Conservation"
      [] cause_col = "giving_water_resource_protection"   -> "Water Resource Protection"
      [] cause_col = "giving_sustainable_agriculture"     -> "Sustainable Agriculture"
      [] cause_col = "giving_environmental_justice"       -> "Environmental Justice"
      [] cause_col = "giving_environmental_education"     -> "Environmental Education"
      [] cause_col = "giving_waste_reduction_&_recycling" -> "Waste Reduction & Recycling"
      [] cause_col = "giving_air_quality_improvement"     -> "Air Quality Improvement"
      [] cause_col = "giving_sustainable_transportation"  -> "Sustainable Transportation"

\* the value of a column in a row; a key the record lacks is a missing value
cell(row, column) == IF column \in DOMAIN row THEN row[column] ELSE NaN

\* rows[members][column].sum(): missing values are skipped
RECURSIVE column_sum(_, _, _)
column_sum(rows, members, column) ==
    IF members = {} THEN 0
    ELSE LET r == CHOOSE x \in members : TRUE
             v == cell(rows[r], column)
         IN  (IF pd_notna(v) THEN v ELSE 0) + column_sum(rows, members \ {r}, column)

\* the rows of cause_df; percentage_of_total_giving in percent, rounded down
cause_area_summary(table) ==
    LET cols == cause_columns(table)
        all == DOMAIN table.rows
        total_env_giving == column_sum(table.rows, all, "env_giving_millions")
    IN  [ c \in DOMAIN cols |->
            LET total_giving == column_sum(table.rows, all, cols[c])
            IN  [ cause_area |-> cause_name(cols[c]),
                  total_giving_millions |-> total_giving,
                  supporting_companies |->
                      Cardinality({ r \in all : LET v == cell(table.rows[r], cols[c])
                                                IN  pd_notna(v) /\ v > 0 }),
                  percentage_of_total_giving |->
                      IF total_env_giving > 0
                      THEN (total_giving * 100) \div total_env_giving ELSE 0 ] ]

\* the rows of industry_cause_df
industry_cause_data(table) ==
    LET cols == cause_columns(table)
        unique == SetToSeq({ table.rows[r].industry : r \in DOMAIN table.rows })
        members(ind) == { r \in DOMAIN table.rows : table.rows[r].industry = ind }
        pairs == SetToSeq({ <<ind, c>> \in (DOMAIN unique) \X (DOMAIN cols) :
                              column_sum(table.rows, members(unique[ind]), cols[c]) > 0 })
    IN  [ p \in DOMAIN pairs |->
            [ industry |-> unique[pairs[p][1]],
              cause_area |-> cause_name(cols[pairs[p][2]]),
              industry_giving_millions |->
                  column_sum(table.rows, members(unique[pairs[p][1]]), cols[pairs[p][2]]) ] ]

\* generate_cause_area_summary(table): the table it returns and the one it
\* stores in additional_dataframes
generate_cause_area_summary(table) ==
    IF cause_columns(table) = <<>>
    THEN [ cause_df |-> DataFrame(<<>>), stored |-> <<>> ]
    ELSE [ cause_df |-> DataFrame(cause_area_summary(table)),
           stored |-> [ industry_cause_df |-> DataFrame(industry_cause_data(table)) ] ]

---------------------------------------------------------------------------
(* generate_geographic_data, given a company table.  Sums keep the units   *)
(* of the company columns; means are rounded down; avg_giving_per_company  *)
(* is in cents, local_giving_pct and ej_incident_pct in percent,           *)
(* giving_pct_of_revenue in 1/10000 of a percent, incident_density in      *)
(* 1/100, giving_to_impact_ratio in 1/1000000.  The order of the rows is   *)
(* not modelled.                                                           *)

\* the result of dividing a positive number by zero
inf == -999998

\* a / b on two columns: a zero divisor gives inf, or NaN for 0 / 0
divide(a, b) ==
    IF a = NaN \/ b = NaN THEN NaN
    ELSE IF b = 0 THEN (IF a = 0 THEN NaN ELSE inf)
    ELSE a \div b

fillna(x, value) == IF x = NaN THEN value ELSE x

\* the group keys carry the company as well
geo_group_key_per_company(row) == <<row.state, row.state_name, row.region, row.company_id>>

\* the key of company_df.groupby(['state', 'state_name', 'region'])
geo_group_key(row) == <<row.state, row.state_name, row.region>>

\* the aggregate adds the values up
group_count_summed(rows, members, column) == column_sum(rows, members, column)

\* the aggregate 'count': the number of values of the group that are not missing
group_count(rows, members, column) ==
    Cardinality({ r \in members : pd_notna(cell(rows[r], column)) })

\* the aggregate 'mean', over the values that are not missing
group_mean(rows, members, column) ==
    divide(column_sum(rows, members, column), group_count(rows, members, column))

\* the columns lines 40-61 read; without one of them the call raises KeyError
GeoRequiredColumns ==
    { "state_name", "region", "company_id", "env_giving_millions", "transparency_score",
      "environmental_impact_score", "incident_count", "esg_score",
      "local_giving_millions", "national_giving_millions" }

\* lines 40-61: one row per group, renamed, with the first derived metrics
GeoGroups(table) ==
    LET rows == table.rows
        groups == SetToSeq({ geo_group_key(rows[r]) : r \in DOMAIN rows })
        members(key) == { r \in DOMAIN rows : geo_group_key(rows[r]) = key }
    IN  [ g \in DOMAIN groups |->
            LET m == members(groups[g])
                count == group_count(rows, m, "company_id")
                giving == column_sum(rows, m, "env_giving_millions")
                local == column_sum(rows, m, "local_giving_millions")
            IN  [ state |-> groups[g][1],
                  state_name |-> groups[g][2],
                  region |-> groups[g][3],
                  num_companies |-> count,
                  env_giving_millions |-> giving,
                  avg_transparency_score |-> group_mean(rows, m, "transparency_score"),
                  avg_environmental_impact |->
                      group_mean(rows, m, "environmental_impact_score"),
                  incident_count |-> column_sum(rows, m, "incident_count"),
                  avg_esg_score |-> group_mean(rows, m, "esg_score"),
                  local_giving_millions |-> local,
                  national_giving_millions |->
                      column_sum(rows, m, "national_giving_millions"),
                  avg_giving_per_company |-> divide(giving, count),
                  local_giving_pct |-> divide(local * 100, giving) ] ]

\* table.groupby('state')[column].sum().reset_index()
state_totals(table, column) ==
    LET rows == table.rows
        keys == SetToSeq({ rows[r].state : r \in DOMAIN rows })
    IN  [ k \in DOMAIN keys |->
            ("state" :> keys[k]) @@
            (column :> column_sum(rows, { r \in DOMAIN rows : rows[r].state = keys[k] },
                                  column)) ]

\* pd.merge(left, right, on='state', how=how) for the first n rows of left:
\* every pair of rows with the same state; how = "left" keeps a left row
\* without partner, the columns of right missing
RECURSIVE merge(_, _, _, _, _)
merge(left, right, right_columns, how, n) ==
    IF n = 0 THEN <<>>
    ELSE LET partners == SetToSeq({ r \in DOMAIN right : right[r].state = left[n].state })
         IN  merge(left, right, right_columns, how, n - 1) \o
             (IF partners # <<>>
              THEN [ p \in DOMAIN partners |-> dict_update(left[n], right[partners[p]]) ]
              ELSE IF how = "left"
              THEN << dict_update(left[n], [ c \in right_columns \ {"state"} |-> NaN ]) >>
              ELSE <<>>)

\* lines 63-69
with_revenue(geo, company_df) ==
    IF "revenue_millions" \in company_df.columns
    THEN LET state_revenue == state_totals(company_df, "revenue_millions")
             merged == merge(geo, state_revenue, {"state", "revenue_millions"},
                             "inner", Len(geo))
         IN  [ g \in DOMAIN merged |->
                 dict_set(merged[g], "giving_pct_of_revenue",
                          divide(merged[g].env_giving_millions,
                                 merged[g].revenue_millions * 100)) ]
    ELSE geo

\* lines 72-78
with_density(geo) ==
    [ g \in DOMAIN geo |->
        dict_update(geo[g],
            [ state_abbr |-> geo[g].state,
              incident_density |-> divide(geo[g].incident_count * 100, geo[g].num_companies),
              giving_to_impact_ratio |->
                  divide(geo[g].env_giving_millions * 100,
                         geo[g].avg_environmental_impact * geo[g].num_companies) ]) ]

\* lines 81-85: table[table[column]], the rows whose flag is set.  The column
\* of a table without rows holds no boolean (its dtype is object), so the key
\* is read as a list of column labels, an empty one: the result has no column
boolean_mask_select(table, column) ==
    IF table.rows = <<>> THEN DataFrame(<<>>)
    ELSE [ columns |-> table.columns,
           rows |-> SelectSeq(table.rows, LAMBDA r : r[column]) ]

\* selected.groupby('state').size().reset_index(), columns state and ej_incident_count
ej_incidents(selected) ==
    LET keys == SetToSeq({ selected.rows[r].state : r \in DOMAIN selected.rows })
    IN  [ k \in DOMAIN keys |->
            [ state |-> keys[k],
              ej_incident_count |->
                  Cardinality({ r \in DOMAIN selected.rows :
                                  selected.rows[r].state = keys[k] }) ] ]

\* the test of lines 81-83
has_ej_flag(registry) ==
    /\ "incident_df" \in DOMAIN registry
    /\ "in_environmental_justice_community" \in registry.incident_df.columns

\* lines 80-94
with_ej(geo, registry) ==
    IF has_ej_flag(registry)
    THEN LET selected == boolean_mask_select(registry.incident_df,
                                             "in_environmental_justice_community")
             merged == merge(geo, ej_incidents(selected), {"state", "ej_incident_count"},
                             "left", Len(geo))
         IN  [ g \in DOMAIN merged |->
                 LET count == fillna(merged[g].ej_incident_count, 0)
                 IN  dict_update(merged[g],
                         [ ej_incident_count |-> count,
                           ej_incident_pct |->
                               fillna(divide(count * 100, merged[g].incident_count), 0) ]) ]
    ELSE geo

\* the call raises KeyError: a column of lines 40-61 is missing, or the
\* selected incidents have no column state to group by
geographic_data_raises(company_df, registry) ==
    \/ ~(GeoRequiredColumns \subseteq company_df.columns)
    \/ /\ has_ej_flag(registry)
       /\ groupby_raises(boolean_mask_select(registry.incident_df,
                                             "in_environmental_justice_community"),
                         {"state"})

\* the test of line 38; the model passes a table or nothing
is_company_table(company_df) == "state" \in company_df.columns

\* lines 38-96
geographic_data_of(company_df, registry) ==
    LET rows == with_ej(with_density(with_revenue(GeoGroups(company_df), company_df)),
                        registry)
    IN  [ columns |-> UNION { DOMAIN rows[r] : r \in DOMAIN rows }, rows |-> rows ]

---------------------------------------------------------------------------
(* generate_geographic_data without company data (lines 99-251).  weight   *)
(* is in 1/1000; giving amounts are in 1/100 of a million once rounded,    *)
(* local_giving_pct and ej_incident_pct in 1/100 of a percent, the scores  *)
(* in 1/100 of a point, giving_pct_of_revenue in 1/10000, avg_esg_score in *)
(* 1/1000, giving_to_impact_ratio in 1/10.                                 *)

geo_states == <<
    [abbr |-> "CA", name |-> "California", weight |-> 120, region |-> "West"],
    [abbr |-> "TX", name |-> "Texas", weight |-> 90, region |-> "South"],
    [abbr |-> "NY", name |-> "New York", weight |-> 60, region |-> "Northeast"],
    [abbr |-> "FL", name |-> "Florida", weight |-> 70, region |-> "South"],
    [abbr |-> "IL", name |-> "Illinois", weight |-> 40, region |-> "Midwest"],
    [abbr |-> "PA", name |-> "Pennsylvania", weight |-> 40, region |-> "Northeast"],
    [abbr |-> "OH", name |-> "Ohio", weight |-> 35, region |-> "Midwest"],
    [abbr |-> "GA", name |-> "Georgia", weight |-> 35, region |-> "South"],
    [abbr |-> "NC", name |-> "North Carolina", weight |-> 30, region |-> "South"],
    [abbr |-> "MI", name |-> "Michigan", weight |-> 30, region |-> "Midwest"],
    [abbr |-> "NJ", name |-> "New Jersey", weight |-> 25, region |-> "Northeast"],
    [abbr |-> "VA", name |-> "Virginia", weight |-> 25, region |-> "South"],
    [abbr |-> "WA", name |-> "Washington", weight |-> 25, region |-> "West"],
    [abbr |-> "AZ", name |-> "Arizona", weight |-> 25, region |-> "West"],
    [abbr |-> "MA", name |-> "Massachusetts", weight |-> 20, region |-> "Northeast"],
    [abbr |-> "TN", name |-> "Tennessee", weight |-> 20, region |-> "South"],
    [abbr |-> "IN", name |-> "Indiana", weight |-> 20, region |-> "Midwest"],
    [abbr |-> "MO", name |-> "Missouri", weight |-> 18, region |-> "Midwest"],
    [abbr |-> "MD", name |-> "Maryland", weight |-> 18, region |-> "South"],
    [abbr |-> "WI", name |-> "Wisconsin", weight |-> 18, region |-> "Midwest"],
    [abbr |-> "CO", name |-> "Colorado", weight |-> 18, region |-> "West"],
    [abbr |-> "MN", name |-> "Minnesota", weight |-> 17, region |-> "Midwest"],
    [abbr |-> "SC", name |-> "South Carolina", weight |-> 15, region |-> "South"],
    [abbr |-> "AL", name |-> "Alabama", weight |-> 15, region |-> "South"],
    [abbr |-> "LA", name |-> "Louisiana", weight |-> 14, region |-> "South"],
    [abbr |-> "KY", name |-> "Kentucky", weight |-> 13, region |-> "South"],
    [abbr |-> "OR", name |-> "Oregon", weight |-> 13, region |-> "West"],
    [abbr |-> "OK", name |-> "Oklahoma", weight |-> 12, region |-> "South"],
    [abbr |-> "CT", name |-> "Connecticut", weight |-> 11, region |-> "Northeast"],
    [abbr |-> "UT", name |-> "Utah", weight |-> 10, region |-> "West"],
    [abbr |-> "IA", name |-> "Iowa", weight |-> 10, region |-> "Midwest"],
    [abbr |-> "NV", name |-> "Nevada", weight |-> 10, region |-> "West"],
    [abbr |-> "AR", name |-> "Arkansas", weight |-> 9, region |-> "South"],
    [abbr |-> "MS", name |-> "Mississippi", weight |-> 9, region |-> "South"],
    [abbr |-> "KS", name |-> "Kansas", weight |-> 9, region |-> "Midwest"],
    [abbr |-> "NM", name |-> "New Mexico", weight |-> 7, region |-> "West"],
    [abbr |-> "NE", name |-> "Nebraska", weight |-> 6, region |-> "Midwest"],
    [abbr |-> "ID", name |-> "Idaho", weight |-> 6, region |-> "West"],
    [abbr |-> "WV", name |-> "West Virginia", weight |-> 5, region |-> "South"],
    [abbr |-> "HI", name |-> "Hawaii", weight |-> 4, region |-> "West"],
    [abbr |-> "NH", name |-> "New Hampshire", weight |-> 4, region |-> "Northeast"],
    [abbr |-> "ME", name |-> "Maine", weight |-> 4, region |-> "Northeast"],
    [abbr |-> "MT", name |-> "Montana", weight |-> 3, region |-> "West"],
    [abbr |-> "RI", name |-> "Rhode Island", weight |-> 3, region |-> "Northeast"],
    [abbr |-> "DE", name |-> "Delaware", weight |-> 3, region |-> "South"],
    [abbr |-> "SD", name |-> "South Dakota", weight |-> 3, region |-> "Midwest"],
    [abbr |-> "ND", name |-> "North Dakota", weight |-> 2, region |-> "Midwest"],
    [abbr |-> "AK", name |-> "Alaska", weight |-> 2, region |-> "West"],
    [abbr |-> "VT", name |-> "Vermont", weight |-> 2, region |-> "Northeast"],
    [abbr |-> "WY", name |-> "Wyoming", weight |-> 2, region |-> "West"],
    [abbr |-> "DC", name |-> "District of Columbia", weight |-> 1, region |-> "South"] >>

total_companies == 7406

\* in 1/10
region_factor(region) ==
    CASE region = "West"      -> 12
      [] region = "Northeast" -> 11
      [] region = "Midwest"   -> 9
      [] region = "South"     -> 8

\* np.random.uniform(low, high): [low, high] by region
region_transparency(region, u) ==
    IF region = "West" THEN uniform(6000, 8500, u)
    ELSE IF region = "Northeast" THEN uniform(5500, 8000, u)
    ELSE IF region = "Midwest" THEN uniform(4500, 7000, u)
    ELSE uniform(4000, 6500, u)

region_env_impact(region, u) ==
    IF region = "West" THEN uniform(4000, 6500, u)
    ELSE IF region = "Northeast" THEN uniform(4500, 7000, u)
    ELSE IF region = "Midwest" THEN uniform(5000, 7500, u)
    ELSE uniform(5500, 8000, u)

region_giving_pct(region, u) ==
    IF region = "West" THEN uniform(800, 1500, u)
    ELSE IF region = "Northeast" THEN uniform(600, 1200, u)
    ELSE IF region = "Midwest" THEN uniform(500, 1000, u)
    ELSE uniform(400, 900, u)

\* round(x, 2) of an amount in 1/10000
round2(x) == (x + 50) \div 100

\* the dict appended to state_data for one state, for the draws d
StateData(info, d) ==
    LET num_of_companies ==
            (total_companies * info.weight * uniform(85, 115, d.u_companies)) \div 100000
        giving == num_of_companies * 25 * region_factor(info.region)
                      * uniform(70, 130, d.u_giving)
        local == fraction_of(giving, d.beta)
        transparency == region_transparency(info.region, d.u_score)
        env_impact == region_env_impact(info.region, d.u_score)
        giving_pct == region_giving_pct(info.region, d.u_score)
        incidents == (env_impact * num_of_companies) \div 100000
        ej_count == (incidents * uniform(30, 70, d.u_ej)) \div 100
    IN  [ state |-> info.abbr,
          state_name |-> info.name,
          state_abbr |-> info.abbr,
          region |-> info.region,
          num_companies |-> num_of_companies,
          env_giving_millions |-> round2(giving),
          local_giving_millions |-> round2(local),
          national_giving_millions |-> round2(giving - local),
          local_giving_pct |-> d.beta * 100,
          avg_giving_per_company |->
              round2(IF num_of_companies > 0 THEN giving \div num_of_companies ELSE 0),
          giving_pct_of_revenue |-> giving_pct,
          avg_transparency_score |-> transparency,
          avg_environmental_impact |-> env_impact,
          incident_count |-> incidents,
          ej_incident_count |-> ej_count,
          ej_incident_pct |-> IF incidents > 0 THEN (ej_count * 10000) \div incidents ELSE 0,
          avg_esg_score |-> transparency * 4 + (10000 - env_impact) * 3 + giving_pct * 3,
          giving_to_impact_ratio |-> divide(giving * 10, env_impact * num_of_companies) ]

\* the draws of one state: the uniform draws in 1/100 of their range, beta in 1/100
StateDraws ==
    { [u_companies |-> 0,   u_giving |-> 0,   beta |-> 0,   u_score |-> 0,   u_ej |-> 0],
      [u_companies |-> 50,  u_giving |-> 50,  beta |-> 40,  u_score |-> 50,  u_ej |-> 50],
      [u_companies |-> 100, u_giving |-> 100, beta |-> 100, u_score |-> 100, u_ej |-> 100] }

\* the draws of every state: one record for the states at even positions of the
\* dict, one for the others
ScratchDraws ==
    { [s \in DOMAIN geo_states |-> IF s % 2 = 0 THEN a ELSE b] :
        a \in StateDraws, b \in StateDraws }

\* lines 99-251: for state_abbr, info in states.items()
geographic_data_from_scratch(draws) ==
    DataFrame([ s \in DOMAIN geo_states |-> StateData(geo_states[s], draws[s]) ])

---------------------------------------------------------------------------
(* Spec: the generator as its callers use it.  get_sample_data calls       *)
(* generate_corporate_data and then generate_geographic_data on the table  *)
(* it returned; generate_geographic_data can also be called without a      *)
(* table.                                                                  *)

\* the draws of the companies of a population: the state and the incident count vary
PopulationDraws ==
    { [NominalDraw(1) EXCEPT !.state_idx = st, !.incident_count = c] :
        st \in {1, 2}, c \in 0 .. MaxIncidents }

\* the draws of an incident, but for the environmental-justice test
NominalIncident ==
    CHOOSE d \in IncidentDraws : d.severity = 3 /\ d.lat_jitter = 0 /\ d.ci_offset = 0

NominalClaims ==
    CHOOSE d \in MarketingDraws :
        /\ d.num_claims = 2 /\ d.selected_claim_types[1] = claim_types[1]
        /\ d.intensity_u = 100 /\ d.selected_channels = <<channels[1]>>

\* the stores, but with the industry tables of an earlier call left in place
registry_keeping_industry_tables(registry, incidents, h, marketing, summary) ==
    dict_update(
        dict_update(dict_update(IndustryYearlyTables(h), registry),
                    [ incident_df |-> incidents,
                      transparency_history |-> h.transparency_history,
                      giving_history |-> h.giving_history,
                      impact_history |-> h.impact_history,
                      marketing_df |-> marketing ]),
        dict_update(summary.stored, [ cause_area_df |-> summary.cause_df ]))

\* lines 1044-1049, after the entries generate_historical_data stored
registry_after(registry, incidents, h, marketing, summary) ==
    dict_update(
        dict_update(dict_update(registry, IndustryYearlyTables(h)),
                    [ incident_df |-> incidents,
                      transparency_history |-> h.transparency_history,
                      giving_history |-> h.giving_history,
                      impact_history |-> h.impact_history,
                      marketing_df |-> marketing ]),
        dict_update(summary.stored, [ cause_area_df |-> summary.cause_df ]))

Init ==
    /\ pc = "idle"
    /\ num_companies = 0
    /\ current_year \in MinYear .. MaxYear
    /\ historical_data = NoHistory
    /\ history_noise = <<>>
    /\ additional_dataframes = <<>>
    /\ geo_data = DataFrame(<<>>)
    /\ IdleSampler /\ IdleTables
    /\ IdleOthers

\* generate_corporate_data(n), lines 657-1054
GenerateCorporateData ==
    /\ pc = "idle"
    /\ \E n \in 0 .. MaxCompanies :
       \E draws \in [1 .. n -> PopulationDraws], ejs \in [range(MaxIncidents) -> EjDraws] :
          LET table == DataFrame([ k \in 1 .. n |-> CompanyData(k - 1, draws[k]) ])
              incidents ==
                  generate_incident_data(
                      table,
                      [ k \in range(MaxIncidents) |-> [NominalIncident EXCEPT !.ej_u = ejs[k]] ],
                      current_year)
              noise == [ y \in 2020 .. current_year |-> NoNoise ]
          IN  /\ num_companies' = n
              /\ history_noise' = noise
              /\ IF historical_data_raises(table, noise, current_year)
                 THEN /\ pc' = "KeyError: 'industry'"
                      /\ UNCHANGED <<df, incident_df, historical_data, additional_dataframes>>
                 ELSE LET h == HistoryTables(table, noise, current_year)
                      IN  /\ df' = table
                          /\ incident_df' = incidents
                          /\ historical_data' = h
                          /\ additional_dataframes' =
                                 registry_after(additional_dataframes, incidents, h,
                                                generate_marketing_data(table, NominalClaims),
                                                generate_cause_area_summary(table))
                          /\ pc' = "returned"
    /\ UNCHANGED <<i, company_data, selected_causes, current_year, geo_data>>
    /\ UNCHANGED otherVars

\* generate_geographic_data(corporate_data), data_loader.py line 292
GenerateGeographicData ==
    /\ pc = "returned"
    /\ IF is_company_table(df)
       THEN IF geographic_data_raises(df, additional_dataframes)
            THEN /\ pc' = "KeyError: 'state'"
                 /\ UNCHANGED geo_data
            ELSE /\ geo_data' = geographic_data_of(df, additional_dataframes)
                 /\ pc' = "aggregated"
       ELSE \E draws \in ScratchDraws :
                /\ geo_data' = geographic_data_from_scratch(draws)
                /\ pc' = "generated"
    /\ UNCHANGED <<i, company_data, selected_causes, df, incident_df, current_year,
                   historical_data, additional_dataframes, num_companies, history_noise>>
    /\ UNCHANGED otherVars

\* generate_geographic_data()
GenerateGeographicDataFromScratch ==
    /\ pc = "idle"
    /\ \E draws \in ScratchDraws :
          geo_data' = geographic_data_from_scratch(draws)
    /\ pc' = "generated"
    /\ UNCHANGED <<i, company_data, selected_causes, df, incident_df, current_year,
                   historical_data, additional_dataframes, num_companies, history_noise>>
    /\ UNCHANGED otherVars

Next ==
    \/ GenerateCorporateData
    \/ GenerateGeographicData
    \/ GenerateGeographicDataFromScratch

Spec == Init /\ [][Next]_vars

\* the rows of the geographic table for one state
GeoRowsOf(state) == { g \in DOMAIN geo_data.rows : geo_data.rows[g].state = state }

StatesOf(table) == { table.rows[r].state : r \in DOMAIN table.rows }

CorporateRowsWhenReturned ==
    pc = "returned" =>
        /\ Len(df.rows) = num_companies
        /\ \A id \in range(num_companies) :
               Cardinality({ r \in DOMAIN df.rows : df.rows[r].company_id = id }) = 1

\* C1: for every n >= 0, n = 0 included, generate_corporate_data(n) returns
\* normally, with a table of exactly n rows whose company_id values are
\* 0 .. n-1, each once.
C1_ReturnsNRows ==
    /\ pc # "KeyError: 'industry'"
    /\ CorporateRowsWhenReturned

GeoRowsWhenReturned ==
    /\ pc = "aggregated" =>
          /\ \A st \in StatesOf(df) : Cardinality(GeoRowsOf(st)) = 1
          /\ \A g \in DOMAIN geo_data.rows : geo_data.rows[g].state \in StatesOf(df)
          /\ Len(geo_data.rows) <= 51
    /\ pc = "generated" =>
          /\ Len(geo_data.rows) = 51
          /\ Len(geo_states) = 51
          /\ \A s \in DOMAIN geo_states : Cardinality(GeoRowsOf(geo_states[s].abbr)) = 1

\* C10: generate_geographic_data(company_df) returns exactly one row for each
\* distinct state of company_df, never two rows for a state nor a state
\* without company, and at most 51 rows; without company data it returns one
\* row for each of the 51 configured states.
C10_OneRowPerState ==
    /\ pc # "KeyError: 'state'"
    /\ GeoRowsWhenReturned

---------------------------------------------------------------------------
(* SpecGeo: generate_geographic_data applied to a company table, with the  *)
(* registry empty or holding the incident table of that table.             *)

\* companies whose giving, impact or revenue is zero, and companies without a zero
GeoShapes ==
    { [state_idx |-> 1, base_giving_pct |-> 1, impact_base |-> 15, no_revenue |-> FALSE],
      [state_idx |-> 2, base_giving_pct |-> 1, impact_base |-> 15, no_revenue |-> FALSE],
      [state_idx |-> 1, base_giving_pct |-> 0, impact_base |-> 15, no_revenue |-> FALSE],
      [state_idx |-> 2, base_giving_pct |-> 1, impact_base |-> 0,  no_revenue |-> FALSE],
      [state_idx |-> 3, base_giving_pct |-> 1, impact_base |-> 15, no_revenue |-> TRUE] }

GeoInputRow(idx, shape, count) ==
    LET row == CompanyData(idx, [NominalDraw(1) EXCEPT !.state_idx = shape.state_idx,
                                                       !.base_giving_pct = shape.base_giving_pct,
                                                       !.impact_base = shape.impact_base,
                                                       !.incident_count = count])
    IN  IF shape.no_revenue THEN [row EXCEPT !["revenue_millions"] = 0] ELSE row

GeoInputTables ==
    UNION { { [k \in 1 .. n |-> GeoInputRow(k - 1, f[k][1], f[k][2])] :
                f \in [1 .. n -> GeoShapes \X {0, MaxIncidents}] } :
            n \in 1 .. MaxCompanies }

\* the registry: empty, or with the incidents of table, all of them inside or
\* all of them outside an environmental-justice community
GeoRegistries(table, year) ==
    { <<>> } \cup
    { [ incident_df |->
          generate_incident_data(
              table, [ k \in range(MaxIncidents) |-> [NominalIncident EXCEPT !.ej_u = u] ],
              year) ] : u \in EjDraws }

InitGeo ==
    /\ df \in { DataFrame(t) : t \in GeoInputTables }
    /\ current_year = MinYear
    /\ additional_dataframes \in GeoRegistries(df, current_year)
    /\ incident_df = DataFrame(<<>>)
    /\ historical_data = NoHistory
    /\ history_noise = <<>>
    /\ geo_data = DataFrame(<<>>)
    /\ num_companies = 0
    /\ pc = "idle"
    /\ IdleSampler
    /\ IdleOthers

\* generate_geographic_data(df), lines 38-96
AggregateByState ==
    /\ pc = "idle"
    /\ is_company_table(df)
    /\ IF geographic_data_raises(df, additional_dataframes)
       THEN /\ pc' = "KeyError: 'state'"
            /\ UNCHANGED geo_data
       ELSE /\ geo_data' = geographic_data_of(df, additional_dataframes)
            /\ pc' = "aggregated"
    /\ UNCHANGED <<i, company_data, selected_causes, df, incident_df, current_year,
                   historical_data, additional_dataframes, num_companies, history_noise>>
    /\ UNCHANGED otherVars

NextGeo == AggregateByState

SpecGeo == InitGeo /\ [][NextGeo]_vars

\* the derived fields of lines 59-78
DerivedFields ==
    { "avg_giving_per_company", "local_giving_pct", "giving_pct_of_revenue",
      "incident_density", "giving_to_impact_ratio" }

\* C11: whenever a divisor of generate_geographic_data is zero, the derived
\* field is an explicit missing value: no infinity and no NaN appears in the
\* derived fields of the output.
C11_NoInfinityNoNaN ==
    pc = "aggregated" =>
        \A g \in DOMAIN geo_data.rows : \A f \in DerivedFields :
            geo_data.rows[g][f] \notin {inf, NaN}

\* the states that have an incident of the registered table inside an
\* environmental-justice community
EjStates ==
    IF "incident_df" \in DOMAIN additional_dataframes
    THEN { additional_dataframes.incident_df.rows[r].state :
             r \in { x \in DOMAIN additional_dataframes.incident_df.rows :
                       additional_dataframes.incident_df.rows[x]
                           .in_environmental_justice_community } }
    ELSE {}

EjFieldsWhenReturned ==
    (pc = "aggregated" /\ has_ej_flag(additional_dataframes)) =>
        \A g \in DOMAIN geo_data.rows :
            LET row == geo_data.rows[g]
            IN  /\ {"ej_incident_count", "ej_incident_pct"} \subseteq DOMAIN row
                /\ row.ej_incident_count # NaN
                /\ row.ej_incident_pct # NaN
                /\ (row.incident_count = 0 \/ row.state \notin EjStates) =>
                       (row.ej_incident_count = 0 /\ row.ej_incident_pct = 0)

\* C12: when an incident table with the environmental-justice flag is
\* registered, generate_geographic_data returns state rows that all have
\* non-null ej_incident_count and ej_incident_pct, both 0 for a state without
\* incidents or without EJ incidents.
C12_EjFieldsNotNull ==
    /\ has_ej_flag(additional_dataframes) => pc \in {"idle", "aggregated"}
    /\ EjFieldsWhenReturned

---------------------------------------------------------------------------
(* SpecMarketing: generate_marketing_data applied to a company table *)

\* small companies that claim nothing or everything, and very large ones whose
\* giving times 20 is far above 100
MarketingShapes ==
    { [size_idx |-> 1, industry_idx |-> 2, u_revenue |-> 50,  base_giving_pct |-> 1,
       marketing_claims_intensity |-> 0],
      [size_idx |-> 1, industry_idx |-> 2, u_revenue |-> 50,  base_giving_pct |-> 1,
       marketing_claims_intensity |-> 10000],
      [size_idx |-> 4, industry_idx |-> 1, u_revenue |-> 100, base_giving_pct |-> 4,
       marketing_claims_intensity |-> 0],
      [size_idx |-> 4, industry_idx |-> 1, u_revenue |-> 100, base_giving_pct |-> 4,
       marketing_claims_intensity |-> 5000] }

MarketingInputRow(idx, shape) ==
    CompanyData(idx, [NominalDraw(shape.size_idx) EXCEPT
                          !.industry_idx = shape.industry_idx,
                          !.u_revenue = shape.u_revenue,
                          !.base_giving_pct = shape.base_giving_pct,
                          !.marketing_claims_intensity = shape.marketing_claims_intensity])

MarketingInputTables ==
    UNION { { [k \in 1 .. n |-> MarketingInputRow(k - 1, f[k])] :
                f \in [1 .. n -> MarketingShapes] } :
            n \in 0 .. MaxCompanies }

InitMarketing ==
    /\ df \in { DataFrame(t) : t \in MarketingInputTables }
    /\ marketing_df = DataFrame(<<>>)
    /\ leaders_df = DataFrame(<<>>)
    /\ session_state = <<>>
    /\ rng_state = 0 /\ clock = 0 /\ calls = <<>>
    /\ incident_df = DataFrame(<<>>)
    /\ pc = "idle"
    /\ IdleSampler /\ IdleHistory /\ IdleRegistry

GenerateMarketingData ==
    /\ pc = "idle"
    /\ \E d \in MarketingDraws : marketing_df' = generate_marketing_data(df, d)
    /\ pc' = "returned"
    /\ UNCHANGED <<i, company_data, selected_causes, df, incident_df, current_year,
                   historical_data, additional_dataframes, geo_data, num_companies,
                   history_noise, leaders_df, session_state, rng_state, clock, calls>>

NextMarketing == GenerateMarketingData

SpecMarketing == InitMarketing /\ [][NextMarketing]_vars

\* the claim rows of one company
ClaimsOf(company_id) ==
    { r \in DOMAIN marketing_df.rows : marketing_df.rows[r].company_id = company_id }

ElementsOf(s) == { s[k] : k \in DOMAIN s }

\* C13: generate_marketing_data emits 2 to 6 claim rows for every company,
\* with pairwise distinct claim types of the 6-item vocabulary, and every
\* row's channels are a non-empty list of distinct channels of the 6-channel
\* vocabulary.
C13_ClaimsPerCompany ==
    pc = "returned" =>
        /\ \A c \in DOMAIN df.rows :
               LET claims == ClaimsOf(df.rows[c].company_id)
                   types == { marketing_df.rows[r].claim_type : r \in claims }
               IN  /\ Cardinality(claims) \in 2 .. 6
                   /\ Cardinality(types) = Cardinality(claims)
                   /\ types \subseteq ElementsOf(claim_types)
        /\ \A r \in DOMAIN marketing_df.rows :
               LET ch == marketing_df.rows[r].channels
               IN  /\ ch # <<>>
                   /\ IsInjective(ch)
                   /\ ElementsOf(ch) \subseteq ElementsOf(channels)
        /\ Len(claim_types) = 6 /\ Len(channels) = 6

\* a company with six claims, each on all six channels
C13_Witness ==
    /\ pc = "returned"
    /\ \E c \in DOMAIN df.rows :
           /\ Cardinality(ClaimsOf(df.rows[c].company_id)) = 6
           /\ \A r \in ClaimsOf(df.rows[c].company_id) : Len(marketing_df.rows[r].channels) = 6

\* C14: for every marketing claim row claim_intensity and substantiation_score
\* lie in [0, 100], greenwashing_risk is max(0, claim_intensity -
\* substantiation_score) and so lies in [0, 100] (values in 1/100 of a point).
C14_ClaimScores ==
    pc = "returned" =>
        \A r \in DOMAIN marketing_df.rows :
            LET row == marketing_df.rows[r]
            IN  /\ row.claim_intensity \in 0 .. 10000
                /\ row.substantiation_score \in 0 .. 10000
                /\ row.greenwashing_risk =
                       max(0, row.claim_intensity - row.substantiation_score)
                /\ row.greenwashing_risk \in 0 .. 10000

\* a claim at the upper bound of the intensity next to one with no
\* substantiation at all and one with no risk
C14_Witness ==
    /\ pc = "returned"
    /\ \E r \in DOMAIN marketing_df.rows :
           marketing_df.rows[r].claim_intensity = 10000 /\ marketing_df.rows[r].greenwashing_risk > 0
    /\ \E r \in DOMAIN marketing_df.rows :
           marketing_df.rows[r].substantiation_score = 0
           /\ base_substantiation(df.rows[marketing_df.rows[r].company_id + 1]
                                      .marketing_claims_intensity,
                                  df.rows[marketing_df.rows[r].company_id + 1]
                                      .env_giving_millions) < 0

---------------------------------------------------------------------------
(* SpecCalls: generate_corporate_data called again and again in one        *)
(* process, by a caller that seeds numpy's generator and reads the clock   *)
(* of the machine.  rng_state is the seed in force and the number of       *)
(* companies drawn since; clock is the last reading of datetime.now(), in  *)
(* days, and no reading is earlier than the one before; calls records,     *)
(* for every call that returned, the generator state it started from, its  *)
(* argument and the table it returned.                                     *)

Seeds == {1, 2}

MaxCalls == 2

MaxClock == 1

\* np.random.seed(seed)
seeded(seed) == [ seed |-> seed, position |-> 0 ]

\* what the generator seeded with seed yields for the company at position:
\* a function of the two and of nothing else
SeededDraw(seed, position) ==
    [NominalDraw(1) EXCEPT !.state_idx = 1 + ((seed + position) % 2),
                           !.incident_count = (seed * position) % (MaxIncidents + 1)]

\* days_ago = np.random.randint(0, 365) of the same generator
seeded_days_ago(seed, position) ==
    CHOOSE d \in randint(0, 365) : d = (seed * 100 + position * 37) % 365

\* filing_date = datetime.now() - timedelta(days=days_ago)
filing_date(now, days_ago) == now - days_ago

\* the company record with the date_of_filing column
CompanyRecord(idx, rng, now) ==
    dict_set(CompanyData(idx, SeededDraw(rng.seed, rng.position + idx + 1)),
             "date_of_filing",
             filing_date(now, seeded_days_ago(rng.seed, rng.position + idx + 1)))

\* the table generate_corporate_data(n) builds from the generator state rng
\* at the clock reading now
CorporateTable(n, rng, now) ==
    DataFrame([ k \in 1 .. n |-> CompanyRecord(k - 1, rng, now) ])

NominalIncidents(table, year) ==
    generate_incident_data(
        table,
        [ k \in range(MaxIncidents) |->
              [NominalIncident EXCEPT !.ej_u = CHOOSE u \in EjDraws : \A o \in EjDraws : u <= o] ],
        year)

\* the registry after a call that returned table
RegistryOf(registry, table, year) ==
    registry_after(registry, NominalIncidents(table, year),
                   HistoryTables(table, [ y \in 2020 .. year |-> NoNoise ], year),
                   generate_marketing_data(table, NominalClaims),
                   generate_cause_area_summary(table))

InitCalls ==
    /\ pc = "idle"
    /\ rng_state \in { seeded(s) : s \in Seeds }
    /\ clock = 0
    /\ calls = <<>>
    /\ marketing_df = DataFrame(<<>>)
    /\ leaders_df = DataFrame(<<>>)
    /\ session_state = <<>>
    /\ IdleSampler /\ IdleTables /\ IdleHistory /\ IdleRegistry

\* the caller's np.random.seed(s)
Seed ==
    /\ \E s \in Seeds : rng_state' = seeded(s)
    /\ UNCHANGED <<pc, clock, calls, i, company_data, selected_causes, df, incident_df,
                   current_year, historical_data, history_noise, additional_dataframes,
                   geo_data, num_companies, marketing_df, leaders_df, session_state>>

\* generate_corporate_data(n), lines 657-1054, called again, now being what
\* datetime.now() reads during the call
CallGenerateCorporateData ==
    /\ \E n \in 0 .. MaxCompanies, now \in clock .. MaxClock :
          LET table == CorporateTable(n, rng_state, now)
              noise == [ y \in 2020 .. current_year |-> NoNoise ]
          IN  /\ n > 0 => Len(calls) < MaxCalls
              /\ clock' = now
              /\ num_companies' = n
              /\ history_noise' = noise
              /\ rng_state' = [rng_state EXCEPT !.position = @ + n]
              /\ IF historical_data_raises(table, noise, current_year)
                 THEN /\ pc' = "KeyError: 'industry'"
                      /\ UNCHANGED <<df, incident_df, historical_data,
                                     additional_dataframes, marketing_df, calls>>
                 ELSE /\ df' = table
                      /\ incident_df' = NominalIncidents(table, current_year)
                      /\ historical_data' = HistoryTables(table, noise, current_year)
                      /\ marketing_df' = generate_marketing_data(table, NominalClaims)
                      /\ additional_dataframes' =
                             RegistryOf(additional_dataframes, table, current_year)
                      /\ calls' = Append(calls, [ rng_state |-> rng_state,
                                                  num_companies |-> n, table |-> table ])
                      /\ pc' = "returned"
    /\ UNCHANGED <<i, company_data, selected_causes, current_year, geo_data,
                   leaders_df, session_state>>

NextCalls == Seed \/ CallGenerateCorporateData

SpecCalls == InitCalls /\ [][NextCalls]_vars

\* C15: two calls of generate_corporate_data made from the same seeded state
\* of the generator with the same argument return identical company tables,
\* whatever the clock reads.
C15_SameSeedSameTable ==
    \A a \in DOMAIN calls, b \in DOMAIN calls :
        (calls[a].rng_state = calls[b].rng_state
             /\ calls[a].num_companies = calls[b].num_companies)
        => calls[a].table = calls[b].table

\* the table but for its date_of_filing column
WithoutFilingDate(table) ==
    [ k \in DOMAIN table.rows |->
          [ c \in DOMAIN table.rows[k] \ {"date_of_filing"} |-> table.rows[k][c] ] ]

\* the two tables of such calls differ in date_of_filing at most
SameSeedSameOtherColumns ==
    \A a \in DOMAIN calls, b \in DOMAIN calls :
        (calls[a].rng_state = calls[b].rng_state
             /\ calls[a].num_companies = calls[b].num_companies)
        => WithoutFilingDate(calls[a].table) = WithoutFilingDate(calls[b].table)

\* C16: after any sequence of generate_corporate_data calls, failed ones
\* included, the registry is empty or holds exactly the tables computed from
\* the population the most recent successful call returned.
C16_RegistryOfOnePopulation ==
    IF calls = <<>>
    THEN additional_dataframes = <<>>
    ELSE /\ df = calls[Len(calls)].table
         /\ additional_dataframes = RegistryOf(<<>>, df, current_year)
         /\ DOMAIN additional_dataframes =
                { "incident_df", "transparency_history", "giving_history", "impact_history",
                  "marketing_df", "cause_area_df", "industry_yearly_transparency",
                  "industry_yearly_giving", "industry_yearly_impact", "industry_cause_df" }

\* a call that failed after two that returned different populations
C16_Witness ==
    /\ pc = "KeyError: 'industry'"
    /\ Len(calls) = 2
    /\ WithoutFilingDate(calls[1].table) # WithoutFilingDate(calls[2].table)
    /\ additional_dataframes # RegistryOf(<<>>, calls[1].table, current_year)

---------------------------------------------------------------------------
(* SpecApp: the runs of main() of app.py in one browser session.  Every    *)
(* user action makes Streamlit run main() from top to bottom with the      *)
(* session state of the run before.  A table is named by the dataset it    *)
(* was loaded or derived from and, for a company table, by the rows the    *)
(* filters of the sidebar keep.  calls holds the display call of the last  *)
(* run, if it made one.                                                    *)

None == [ dataset |-> "None" ]

\* what load_data returns for the files a user uploads
UploadedFiles == { "upload A", "upload B", "upload C" }

\* the populations get_sample_data generates, a new one at each call
SamplePopulations == { "sample 1", "sample 2" }

tabs == <<"Corporate Players", "Transparency Analysis", "Impact vs. Giving",
          "Leaders & Laggards", "Recommendations">>

company_table(dataset) == [ dataset |-> dataset, rows |-> "all rows" ]

\* what the year and industry filters of the sidebar keep: all rows with
\* "All Years" and no industry selected, some rows with a year or industries
\* selected, and what the run before kept when the table has at most one
\* year and no industry is selected (lines 190 and 235 both false)
FilterSelections == { "all rows", "selected rows", "as before" }

\* a table that generate_geographic_data or generate_historical_data computed
\* from the company table of dataset
derived_table(dataset) == [ derived_from |-> dataset ]

\* lines 270-274
initialized(state) ==
    IF "data" \notin DOMAIN state
    THEN [ data |-> None, filtered_data |-> None, geo_data |-> None,
           historical_data |-> None ]
    ELSE state

\* display_sidebar, lines 166-238: the filters applied to session_state.data
after_sidebar(state, selection) ==
    IF state.data # None /\ selection # "as before"
    THEN [state EXCEPT !.filtered_data = [state.data EXCEPT !.rows = selection]]
    ELSE state

\* lines 297-298
after_upload(state, file) ==
    [state EXCEPT !.data = company_table(file), !.filtered_data = company_table(file)]

after_error_keeping_filtered(state) == [state EXCEPT !.data = None]

\* lines 302-303 and 317-318
after_error(state) == [state EXCEPT !.data = None, !.filtered_data = None]

\* lines 309-313, with get_sample_data of data_loader.py
after_sample(state, population) ==
    [ data |-> company_table(population), filtered_data |-> company_table(population),
      geo_data |-> derived_table(population),
      historical_data |-> derived_table(population) ]

\* lines 327-348: the display call of the selected tab
display_call(state, selected_tab) ==
    IF state.filtered_data = None THEN <<>>
    ELSE IF selected_tab = "Corporate Players"
         THEN << [ tab |-> selected_tab, df |-> state.filtered_data,
                   other |-> state.geo_data ] >>
    ELSE IF selected_tab = "Transparency Analysis"
         THEN << [ tab |-> selected_tab, df |-> state.filtered_data,
                   other |-> state.historical_data ] >>
    ELSE << [ tab |-> selected_tab, df |-> state.filtered_data, other |-> None ] >>

\* the display call of a run with the selection of the filters of the
\* sidebar in that run; line 166 shows the filters only when the run starts
\* with data
run_of(before, selection, shown) ==
    [ k \in DOMAIN shown |->
          [ tab |-> shown[k].tab, df |-> shown[k].df, other |-> shown[k].other,
            filters |-> IF before.data # None THEN selection ELSE "not shown" ] ]

InitApp ==
    /\ pc = "idle"
    /\ session_state = <<>>
    /\ calls = <<>>
    /\ marketing_df = DataFrame(<<>>)
    /\ leaders_df = DataFrame(<<>>)
    /\ rng_state = 0
    /\ clock = 0
    /\ IdleSampler /\ IdleTables /\ IdleHistory /\ IdleRegistry

\* what a run leaves but for session_state, calls and pc
appUnchanged ==
    <<i, company_data, selected_causes, df, incident_df, current_year, historical_data,
      history_noise, additional_dataframes, geo_data, num_companies, marketing_df,
      leaders_df, rng_state, clock>>

\* a run with no file in the uploader and no click on Load Sample Data
RunWithoutLoad ==
    /\ \E selected_tab \in ElementsOf(tabs), selection \in FilterSelections :
          LET state == after_sidebar(initialized(session_state), selection)
          IN  /\ session_state' = state
              /\ calls' = run_of(initialized(session_state), selection,
                                 display_call(state, selected_tab))
              /\ pc' = IF state.filtered_data = None THEN "info" ELSE "displayed"
    /\ UNCHANGED appUnchanged

\* "Upload File" with a file that load_data reads
RunUploadFile ==
    /\ \E selected_tab \in ElementsOf(tabs), selection \in FilterSelections,
          file \in UploadedFiles :
          LET state == after_upload(after_sidebar(initialized(session_state), selection), file)
          IN  /\ session_state' = state
              /\ calls' = run_of(initialized(session_state), selection,
                                 display_call(state, selected_tab))
              /\ pc' = "displayed"
    /\ UNCHANGED appUnchanged

\* "Upload File" with a file on which load_data raises
RunUploadFileError ==
    /\ \E selected_tab \in ElementsOf(tabs), selection \in FilterSelections :
          LET state == after_error(after_sidebar(initialized(session_state), selection))
          IN  /\ session_state' = state
              /\ calls' = run_of(initialized(session_state), selection,
                                 display_call(state, selected_tab))
              /\ pc' = "Error loading data"
    /\ UNCHANGED appUnchanged

\* "Use Sample Data" and a click on Load Sample Data
RunLoadSampleData ==
    /\ \E selected_tab \in ElementsOf(tabs), selection \in FilterSelections,
          population \in SamplePopulations :
          LET state == after_sample(after_sidebar(initialized(session_state), selection), population)
          IN  /\ session_state' = state
              /\ calls' = run_of(initialized(session_state), selection,
                                 display_call(state, selected_tab))
              /\ pc' = "displayed"
    /\ UNCHANGED appUnchanged

\* the same, get_sample_data raising
RunLoadSampleDataError ==
    /\ \E selected_tab \in ElementsOf(tabs), selection \in FilterSelections :
          LET state == after_error(after_sidebar(initialized(session_state), selection))
          IN  /\ session_state' = state
              /\ calls' = run_of(initialized(session_state), selection,
                                 display_call(state, selected_tab))
              /\ pc' = "Error loading sample data"
    /\ UNCHANGED appUnchanged

NextApp ==
    \/ RunWithoutLoad
    \/ RunUploadFile
    \/ RunUploadFileError
    \/ RunLoadSampleData
    \/ RunLoadSampleDataError

SpecApp == InitApp /\ [][NextApp]_vars

\* C17: after any sequence of user actions geo_data and historical_data are
\* None or were derived from the company table in session_state.data, and no
\* tab is displayed with a company table and a geographic or historical
\* table derived from another dataset.
C17_DerivedTablesOfCurrentData ==
    /\ session_state # <<>> =>
           /\ session_state.geo_data \in
                  { None, derived_table(session_state.data.dataset) }
           /\ session_state.historical_data \in
                  { None, derived_table(session_state.data.dataset) }
    /\ \A c \in DOMAIN calls :
           calls[c].other \in { None, derived_table(calls[c].df.dataset) }

\* a failed load
LoadFailed == pc \in { "Error loading data", "Error loading sample data" }

\* C27: at the end of every run data is None exactly when filtered_data is
\* None; a tab is displayed only when filtered_data is not None; a failed
\* load leaves both None.
C27_DataAndFilteredTogether ==
    session_state # <<>> =>
        /\ (session_state.data = None) <=> (session_state.filtered_data = None)
        /\ calls # <<>> => session_state.filtered_data # None
        /\ LoadFailed => session_state.data = None /\ session_state.filtered_data = None
        /\ session_state.data # None =>
               session_state.filtered_data.dataset = session_state.data.dataset

\* an upload that failed after a sample was loaded
C27_Witness ==
    /\ pc = "Error loading data"
    /\ session_state.geo_data # None
    /\ session_state.data = None
    /\ session_state.filtered_data = None
    /\ calls = <<>>

\* C28: in a run that loads data with rows selected in the filters of the
\* sidebar, the table passed to the selected tab holds the selected rows
\* only, with sample data and with an uploaded file.
C28_FilterSurvivesLoad ==
    \A c \in DOMAIN calls :
        calls[c].filters = "selected rows" => calls[c].df.rows = "selected rows"

\* the filter holds in the runs that load nothing
FilterSurvivesWithoutLoad ==
    \A c \in DOMAIN calls :
        (calls[c].filters = "selected rows" /\ calls[c].df.rows # "selected rows")
            => pc = "displayed" /\ session_state.filtered_data = session_state.data

---------------------------------------------------------------------------
(* SpecLeaders: display_leaders_laggards_section of leaders_laggards.py    *)
(* applied to a table.  Scores are in 1/600 of a point, so that the        *)
(* percentile ranks of tables of up to four rows are whole numbers;        *)
(* giving_pct is in 1/100 of a percent.  The function adds its columns to  *)
(* the table it is given (df) and ranks a sorted copy (leaders_df).        *)

\* n points of the score
points(n) == n * 600

\* the first of candidates that is a column, "" when there is none
RECURSIVE first_column(_, _)
first_column(candidates, columns) ==
    IF candidates = <<>> THEN ""
    ELSE IF candidates[1] \in columns THEN candidates[1]
    ELSE first_column(Tail(candidates), columns)

name_col(table) == first_column(<<"company_name", "Name", "CompanyName">>, table.columns)

giving_col(table) ==
    first_column(<<"env_giving_millions", "Charitable Contributions",
                   "environmental_giving", "giving">>, table.columns)

transparency_col(table) ==
    first_column(<<"transparency_score", "reporting_level", "Detail">>, table.columns)

\* (df[giving_col] / df['revenue_millions']) * 100
giving_pct(giving, rev) == (giving * 10000) \div rev

\* Series.rank(pct=True) of the value at k, times n points:
\* the average rank of the equal values over the number of values
rank_pct(values, k, n) ==
    LET less  == Cardinality({ j \in DOMAIN values : values[j] < values[k] })
        equal == Cardinality({ j \in DOMAIN values : values[j] = values[k] })
    IN  (points(n) * (2 * less + equal + 1)) \div (2 * Len(values))

level_scores == [ Minimal |-> 6, Basic |-> 12, Standard |-> 18, Detailed |-> 24,
                  Comprehensive |-> 30 ]

\* lines 208-218
giving_score(table, k) ==
    IF "revenue_millions" \in table.columns
    THEN rank_pct([ j \in DOMAIN table.rows |->
                        giving_pct(table.rows[j][giving_col(table)],
                                   table.rows[j].revenue_millions) ], k, 40)
    ELSE rank_pct([ j \in DOMAIN table.rows |-> table.rows[j][giving_col(table)] ], k, 40)

\* lines 221-239
transparency_score_norm(table, k) ==
    IF transparency_col(table) = "transparency_score"
    THEN (points(table.rows[k].transparency_score) * 3) \div 10
    ELSE IF transparency_col(table) = "Detail"
    THEN points(table.rows[k].Detail * 30)
    ELSE IF transparency_col(table) = "reporting_level"
    THEN IF table.rows[k].reporting_level \in DOMAIN level_scores
         THEN points(level_scores[table.rows[k].reporting_level])
         ELSE 0
    ELSE 0

\* lines 242-245
impact_score_norm(table, k) ==
    IF "environmental_impact_score" \in table.columns
    THEN points(20)
         - rank_pct([ j \in DOMAIN table.rows |-> table.rows[j].environmental_impact_score ],
                    k, 20)
    ELSE 0

\* lines 248-251
incident_score_norm(table, k) ==
    IF "incident_count" \in table.columns
    THEN points(10)
         - rank_pct([ j \in DOMAIN table.rows |-> table.rows[j].incident_count ], k, 10)
    ELSE 0

\* lines 205-251: the base of 50 and the four components
leader_score(table, k) ==
    points(50) + giving_score(table, k) + transparency_score_norm(table, k)
        + impact_score_norm(table, k) + incident_score_norm(table, k)

\* pd.cut(leader_score, bins=[0, 40, 60, 80, inf])
performance_category(score) ==
    IF score <= 0 THEN "NaN"
    ELSE IF score <= points(40) THEN "Laggard"
    ELSE IF score <= points(60) THEN "Below Average"
    ELSE IF score <= points(80) THEN "Above Average"
    ELSE "Leader"

\* the table with leader_score and performance_category, of the columns the
\* function adds
scored(table) ==
    DataFrame([ k \in DOMAIN table.rows |->
                    dict_update(table.rows[k],
                                [ leader_score |-> leader_score(table, k),
                                  performance_category |->
                                      performance_category(leader_score(table, k)) ]) ])

\* df.sort_values('leader_score', ascending=False): the orders it can return
sorted_by_leader_score(table) ==
    { DataFrame([ k \in DOMAIN table.rows |-> table.rows[p[k]] ]) :
        p \in { q \in [DOMAIN table.rows -> DOMAIN table.rows] :
                  /\ \A a, b \in DOMAIN table.rows : a # b => q[a] # q[b]
                  /\ \A a, b \in DOMAIN table.rows :
                         a < b => table.rows[q[a]].leader_score
                                      >= table.rows[q[b]].leader_score } }

\* the companies of the input tables
LeaderRows ==
    { [ env_giving_millions |-> 1, revenue_millions |-> 100, transparency_score |-> 50,
        reporting_level |-> "Standard", environmental_impact_score |-> 50,
        incident_count |-> 0 ],
      [ env_giving_millions |-> 5, revenue_millions |-> 100, transparency_score |-> 100,
        reporting_level |-> "Comprehensive", environmental_impact_score |-> 10,
        incident_count |-> 2 ],
      [ env_giving_millions |-> 0, revenue_millions |-> 50, transparency_score |-> 0,
        reporting_level |-> "Minimal", environmental_impact_score |-> 100,
        incident_count |-> 5 ],
      [ env_giving_millions |-> 5, revenue_millions |-> 1000, transparency_score |-> 80,
        reporting_level |-> "Unrated", environmental_impact_score |-> 10,
        incident_count |-> 0 ] }

\* the columns an input table can have
LeaderColumns ==
    { {"company_name", "env_giving_millions", "revenue_millions", "transparency_score",
       "environmental_impact_score", "incident_count"},
      {"company_name", "env_giving_millions", "reporting_level"},
      {"company_name", "env_giving_millions", "revenue_millions"},
      {"company_name", "env_giving_millions", "transparency_score",
       "environmental_impact_score"},
      {"company_name", "transparency_score"} }

LeaderInputRow(idx, row, columns) ==
    LET full == dict_set(row, "company_name", idx)
    IN  [ c \in columns |-> full[c] ]

LeaderInputTables ==
    UNION { { [ k \in 1 .. n |-> LeaderInputRow(k, f[k], columns) ] :
                f \in [1 .. n -> LeaderRows], columns \in LeaderColumns } :
            n \in 1 .. MaxCompanies }

InitLeaders ==
    /\ pc = "idle"
    /\ df \in { DataFrame(t) : t \in LeaderInputTables }
    /\ leaders_df = DataFrame(<<>>)
    /\ marketing_df = DataFrame(<<>>)
    /\ incident_df = DataFrame(<<>>)
    /\ session_state = <<>>
    /\ rng_state = 0 /\ clock = 0 /\ calls = <<>>
    /\ IdleSampler /\ IdleHistory /\ IdleRegistry

\* display_leaders_laggards_section(df), lines 161-261
DisplayLeadersLaggardsSection ==
    /\ pc = "idle"
    /\ IF name_col(df) # "" /\ giving_col(df) # ""
       THEN /\ df' = scored(df)
            /\ leaders_df' \in sorted_by_leader_score(scored(df))
            /\ pc' = "ranked"
       ELSE /\ pc' = "not ranked"
            /\ UNCHANGED <<df, leaders_df>>
    /\ UNCHANGED <<i, company_data, selected_causes, incident_df, current_year,
                   historical_data, history_noise, additional_dataframes, geo_data,
                   num_companies, marketing_df, session_state, rng_state, clock, calls>>

NextLeaders == DisplayLeadersLaggardsSection

SpecLeaders == InitLeaders /\ [][NextLeaders]_vars

\* C20: the leadership score of every company lies in [0, 100], the score
\* being the base of 50 plus the giving (up to 40), transparency (up to 30),
\* impact (up to 20) and incident (up to 10) components.
C20_LeaderScoreInRange ==
    pc = "ranked" =>
        \A k \in DOMAIN df.rows : df.rows[k].leader_score \in 0 .. points(100)

\* what the score does satisfy: at least the base, at most base plus the
\* four maxima, and leaders_df holds the same rows in descending order
LeaderScoreBetween50And150 ==
    pc = "ranked" =>
        /\ \A k \in DOMAIN df.rows :
               df.rows[k].leader_score \in points(50) .. points(150)
        /\ Len(leaders_df.rows) = Len(df.rows)
        /\ \A k \in DOMAIN leaders_df.rows :
               k > 1 => leaders_df.rows[k - 1].leader_score >= leaders_df.rows[k].leader_score

\* the labels of pd.cut, line 256
category_labels == <<"Laggard", "Below Average", "Above Average", "Leader">>

\* input tables of up to as many companies as there are kinds of rows
CategoryInputTables ==
    UNION { { [ k \in 1 .. n |-> LeaderInputRow(k, f[k], columns) ] :
                f \in [1 .. n -> LeaderRows], columns \in LeaderColumns } :
            n \in 1 .. Cardinality(LeaderRows) }

\* the categories display_leaders_laggards_section gives to the companies of
\* some input table
AssignedCategories ==
    UNION { { scored(DataFrame(t)).rows[k].performance_category : k \in DOMAIN t } :
            t \in { x \in CategoryInputTables :
                      name_col(DataFrame(x)) # "" /\ giving_col(DataFrame(x)) # "" } }

\* C30: every scored company gets one of the four categories, and each of
\* the four, Laggard included, is given to some company of some input table.
C30_EveryCategoryAssigned ==
    /\ pc = "ranked" =>
           \A k \in DOMAIN df.rows :
               df.rows[k].performance_category \in ElementsOf(category_labels)
    /\ ElementsOf(category_labels) \subseteq AssignedCategories

\* every scored company gets Below Average, Above Average or Leader, and each
\* of the three is given for some input table
NeverLaggard ==
    /\ pc = "ranked" =>
           \A k \in DOMAIN df.rows :
               df.rows[k].performance_category \in ElementsOf(category_labels) \ {"Laggard"}
    /\ AssignedCategories = ElementsOf(category_labels) \ {"Laggard"}

---------------------------------------------------------------------------
(* SpecLevels: the reporting level of one transparency score, as the       *)
(* company sampler derives it (lines 859-871 of data_generator.py) and as  *)
(* the history generator derives it (lines 281-291).  The score is in      *)
(* 1/100 of a point in company_data and in 1/10000 in the history record.  *)

\* every clamped score with two decimals
LevelScores == 0 .. 10000

InitLevels ==
    /\ pc = "idle"
    /\ i = 0 /\ company_data = <<>> /\ selected_causes = <<>>
    /\ IdleTables /\ IdleHistory /\ IdleRegistry /\ IdleOthers

\* the two derivations applied to the same score
DeriveReportingLevel ==
    /\ pc = "idle"
    /\ \E score \in LevelScores :
          /\ company_data' =
                 [ transparency_score |-> score,
                   reporting_level |-> reporting_level(score),
                   detail_level |-> detail_level(reporting_level(score)) ]
          /\ historical_data' =
                 [NoHistory EXCEPT !.transparency_history =
                      DataFrame(<< [ transparency_score |-> score * 100,
                                     reporting_level |->
                                         historical_reporting_level(score * 100) ] >>)]
    /\ pc' = "derived"
    /\ UNCHANGED <<i, selected_causes, df, incident_df, current_year, history_noise,
                   additional_dataframes, geo_data, num_companies>>
    /\ UNCHANGED otherVars

NextLevels == DeriveReportingLevel

SpecLevels == InitLevels /\ [][NextLevels]_vars

\* C21: the company sampler and the history generator derive the same
\* reporting level from a transparency score: Minimal below 20, Basic below
\* 40, Standard below 60, Detailed below 80, else Comprehensive; and
\* detail_level is 1 exactly when the score is at least 60.
C21_SameReportingLevel ==
    pc = "derived" =>
        /\ company_data.reporting_level =
               historical_data.transparency_history.rows[1].reporting_level
        /\ company_data.reporting_level =
               ( IF company_data.transparency_score < 2000 THEN "Minimal"
                 ELSE IF company_data.transparency_score < 4000 THEN "Basic"
                 ELSE IF company_data.transparency_score < 6000 THEN "Standard"
                 ELSE IF company_data.transparency_score < 8000 THEN "Detailed"
                 ELSE "Comprehensive" )
        /\ company_data.detail_level = 1 <=> company_data.transparency_score >= 6000
        /\ company_data.detail_level \in {0, 1}

\* a score on a threshold: 60 is Detailed in both, with detail_level 1
C21_Witness ==
    /\ pc = "derived"
    /\ company_data.transparency_score = 6000
    /\ historical_data.transparency_history.rows[1].reporting_level = "Detailed"
    /\ company_data.detail_level = 1

---------------------------------------------------------------------------
(* SpecColumns: standardize_common_columns of data_loader.py applied to    *)
(* the columns of an uploaded table.  A name is the sequence of its        *)
(* characters; df.columns is the sequence of the names in the order of     *)
(* the table, and calls holds the df.rename calls in the order they were   *)
(* made.  The values of the table, and so the rescaling of the financial   *)
(* columns of lines 265-279, are not modelled.                             *)

\* column_mapping, in the order of the dict: << possible_name, standard_name >>
column_mapping == <<
    << <<"n", "a", "m", "e">>,
       <<"c", "o", "m", "p", "a", "n", "y", "_", "n", "a", "m", "e">> >>,
    << <<"c", "o", "m", "p", "a", "n", "y">>,
       <<"c", "o", "m", "p", "a", "n", "y", "_", "n", "a", "m", "e">> >>,
    << <<"c", "o", "r", "p", "o", "r", "a", "t", "i", "o", "n">>,
       <<"c", "o", "m", "p", "a", "n", "y", "_", "n", "a", "m", "e">> >>,
    << <<"c", "o", "m", "p", "a", "n", "y", "_", "i", "d">>,
       <<"c", "o", "m", "p", "a", "n", "y", "_", "i", "d">> >>,
    << <<"i", "d">>,
       <<"c", "o", "m", "p", "a", "n", "y", "_", "i", "d">> >>,
    << <<"i", "d", "e", "n", "t", "i", "f", "i", "e", "r">>,
       <<"c", "o", "m", "p", "a", "n", "y", "_", "i", "d">> >>,
    << <<"s", "t", "a", "t", "e">>,
       <<"s", "t", "a", "t", "e">> >>,
    << <<"p", "r", "o", "v", "i", "n", "c", "e">>,
       <<"s", "t", "a", "t", "e">> >>,
    << <<"r", "e", "g", "i", "o", "n">>,
       <<"s", "t", "a", "t", "e">> >>,
    << <<"c", "o", "u", "n", "t", "r", "y">>,
       <<"c", "o", "u", "n", "t", "r", "y">> >>,
    << <<"c", "i", "t", "y">>,
       <<"c", "i", "t", "y">> >>,
    << <<"a", "d", "d", "r", "e", "s", "s">>,
       <<"a", "d", "d", "r", "e", "s", "s">> >>,
    << <<"z", "i", "p">>,
       <<"z", "i", "p", "_", "c", "o", "d", "e">> >>,
    << <<"z", "i", "p", "c", "o", "d", "e">>,
       <<"z", "i", "p", "_", "c", "o", "d", "e">> >>,
    << <<"p", "o", "s", "t", "a", "l">>,
       <<"z", "i", "p", "_", "c", "o", "d", "e">> >>,
    << <<"p", "o", "s", "t", "a", "l", "_", "c", "o", "d", "e">>,
       <<"z", "i", "p", "_", "c", "o", "d", "e">> >>,
    << <<"l", "a", "t">>,
       <<"l", "a", "t", "i", "t", "u", "d", "e">> >>,
    << <<"l", "a", "t", "i", "t", "u", "d", "e">>,
       <<"l", "a", "t", "i", "t", "u", "d", "e">> >>,
    << <<"l", "o", "n", "g">>,
       <<"l", "o", "n", "g", "i", "t", "u", "d", "e">> >>,
    << <<"l", "o", "n", "g", "i", "t", "u", "d", "e">>,
       <<"l", "o", "n", "g", "i", "t", "u", "d", "e">> >>,
    << <<"r", "e", "v", "e", "n", "u", "e">>,
       <<"r", "e", "v", "e", "n", "u", "e", "_", "m", "i", "l", "l", "i", "o", "n", "s">> >>,
    << <<"g", "r", "o", "s", "s", "_", "p", "r", "o", "f", "i", "t">>,
       <<"g", "r", "o", "s", "s", "_", "p", "r", "o", "f", "i", "t", "_", "m", "i", "l", "l", "i", "o", "n", "s">> >>,
    << <<"p", "r", "o", "f", "i", "t">>,
       <<"p", "r", "o", "f", "i", "t", "_", "m", "i", "l", "l", "i", "o", "n", "s">> >>,
    << <<"i", "n", "c", "o", "m", "e">>,
       <<"i", "n", "c", "o", "m", "e", "_", "m", "i", "l", "l", "i", "o", "n", "s">> >>,
    << <<"m", "a", "r", "k", "e", "t", "_", "c", "a", "p">>,
       <<"m", "a", "r", "k", "e", "t", "_", "c", "a", "p", "_", "m", "i", "l", "l", "i", "o", "n", "s">> >>,
    << <<"m", "a", "r", "k", "e", "t", "_", "v", "a", "l", "u", "e">>,
       <<"m", "a", "r", "k", "e", "t", "_", "c", "a", "p", "_", "m", "i", "l", "l", "i", "o", "n", "s">> >>,
    << <<"p", "u", "b", "l", "i", "c", "_", "f", "l", "o", "a", "t">>,
       <<"p", "u", "b", "l", "i", "c", "_", "f", "l", "o", "a", "t", "_", "m", "i", "l", "l", "i", "o", "n", "s">> >>,
    << <<"e", "n", "v", "i", "r", "o", "n", "m", "e", "n", "t", "a", "l", "_", "g", "i", "v", "i", "n", "g">>,
       <<"e", "n", "v", "_", "g", "i", "v", "i", "n", "g", "_", "m", "i", "l", "l", "i", "o", "n", "s">> >>,
    << <<"e", "n", "v", "_", "g", "i", "v", "i", "n", "g">>,
       <<"e", "n", "v", "_", "g", "i", "v", "i", "n", "g", "_", "m", "i", "l", "l", "i", "o", "n", "s">> >>,
    << <<"g", "i", "v", "i", "n", "g">>,
       <<"e", "n", "v", "_", "g", "i", "v", "i", "n", "g", "_", "m", "i", "l", "l", "i", "o", "n", "s">> >>,
    << <<"c", "h", "a", "r", "i", "t", "a", "b", "l", "e", "_", "c", "o", "n", "t", "r", "i", "b", "u", "t", "i", "o", "n", "s">>,
       <<"e", "n", "v", "_", "g", "i", "v", "i", "n", "g", "_", "m", "i", "l", "l", "i", "o", "n", "s">> >>,
    << <<"d", "o", "n", "a", "t", "i", "o", "n", "s">>,
       <<"e", "n", "v", "_", "g", "i", "v", "i", "n", "g", "_", "m", "i", "l", "l", "i", "o", "n", "s">> >>,
    << <<"p", "h", "i", "l", "a", "n", "t", "h", "r", "o", "p", "y">>,
       <<"e", "n", "v", "_", "g", "i", "v", "i", "n", "g", "_", "m", "i", "l", "l", "i", "o", "n", "s">> >>,
    << <<"e", "m", "i", "s", "s", "i", "o", "n", "s">>,
       <<"e", "m", "i", "s", "s", "i", "o", "n", "s", "_", "t", "o", "n", "s">> >>,
    << <<"g", "h", "g">>,
       <<"e", "m", "i", "s", "s", "i", "o", "n", "s", "_", "t", "o", "n", "s">> >>,
    << <<"c", "a", "r", "b", "o", "n">>,
       <<"e", "m", "i", "s", "s", "i", "o", "n", "s", "_", "t", "o", "n", "s">> >>,
    << <<"c", "a", "r", "b", "o", "n", "_", "f", "o", "o", "t", "p", "r", "i", "n", "t">>,
       <<"e", "m", "i", "s", "s", "i", "o", "n", "s", "_", "t", "o", "n", "s">> >>,
    << <<"w", "a", "s", "t", "e">>,
       <<"w", "a", "s", "t", "e", "_", "t", "o", "n", "s">> >>,
    << <<"w", "a", "t", "e", "r", "_", "u", "s", "a", "g", "e">>,
       <<"w", "a", "t", "e", "r", "_", "u", "s", "a", "g", "e", "_", "g", "a", "l", "l", "o", "n", "s">> >>,
    << <<"e", "n", "e", "r", "g", "y">>,
       <<"e", "n", "e", "r", "g", "y", "_", "c", "o", "n", "s", "u", "m", "p", "t", "i", "o", "n", "_", "m", "w", "h">> >>,
    << <<"e", "n", "e", "r", "g", "y", "_", "u", "s", "a", "g", "e">>,
       <<"e", "n", "e", "r", "g", "y", "_", "c", "o", "n", "s", "u", "m", "p", "t", "i", "o", "n", "_", "m", "w", "h">> >>,
    << <<"p", "o", "w", "e", "r", "_", "c", "o", "n", "s", "u", "m", "p", "t", "i", "o", "n">>,
       <<"e", "n", "e", "r", "g", "y", "_", "c", "o", "n", "s", "u", "m", "p", "t", "i", "o", "n", "_", "m", "w", "h">> >>,
    << <<"i", "n", "d", "u", "s", "t", "r", "y">>,
       <<"i", "n", "d", "u", "s", "t", "r", "y">> >>,
    << <<"s", "e", "c", "t", "o", "r">>,
       <<"i", "n", "d", "u", "s", "t", "r", "y">> >>,
    << <<"s", "i", "c">>,
       <<"s", "i", "c", "_", "c", "o", "d", "e">> >>,
    << <<"s", "t", "a", "n", "d", "a", "r", "d", "_", "i", "n", "d", "u", "s", "t", "r", "i", "a", "l", "_", "c", "l", "a", "s", "s", "i", "f", "i", "c", "a", "t", "i", "o", "n">>,
       <<"s", "i", "c", "_", "c", "o", "d", "e">> >>,
    << <<"n", "a", "i", "c", "s">>,
       <<"n", "a", "i", "c", "s", "_", "c", "o", "d", "e">> >>,
    << <<"t", "r", "a", "n", "s", "p", "a", "r", "e", "n", "c", "y">>,
       <<"t", "r", "a", "n", "s", "p", "a", "r", "e", "n", "c", "y", "_", "s", "c", "o", "r", "e">> >>,
    << <<"r", "e", "p", "o", "r", "t", "i", "n", "g", "_", "q", "u", "a", "l", "i", "t", "y">>,
       <<"t", "r", "a", "n", "s", "p", "a", "r", "e", "n", "c", "y", "_", "s", "c", "o", "r", "e">> >>,
    << <<"d", "i", "s", "c", "l", "o", "s", "u", "r", "e", "_", "q", "u", "a", "l", "i", "t", "y">>,
       <<"t", "r", "a", "n", "s", "p", "a", "r", "e", "n", "c", "y", "_", "s", "c", "o", "r", "e">> >>,
    << <<"r", "e", "p", "o", "r", "t", "i", "n", "g", "_", "l", "e", "v", "e", "l">>,
       <<"r", "e", "p", "o", "r", "t", "i", "n", "g", "_", "l", "e", "v", "e", "l">> >>,
    << <<"d", "e", "t", "a", "i", "l">>,
       <<"d", "e", "t", "a", "i", "l", "_", "l", "e", "v", "e", "l">> >> >>

upper_case == <<"A", "B", "C", "D", "E", "F", "G", "H", "I", "J", "K", "L", "M",
                "N", "O", "P", "Q", "R", "S", "T", "U", "V", "W", "X", "Y", "Z">>

lower_case == <<"a", "b", "c", "d", "e", "f", "g", "h", "i", "j", "k", "l", "m",
                "n", "o", "p", "q", "r", "s", "t", "u", "v", "w", "x", "y", "z">>

\* str.lower()
lower(s) ==
    [ k \in DOMAIN s |->
          IF \E u \in DOMAIN upper_case : upper_case[u] = s[k]
          THEN lower_case[CHOOSE u \in DOMAIN upper_case : upper_case[u] = s[k]]
          ELSE s[k] ]

\* str.replace(' ', '_')
replace_spaces(s) == [ k \in DOMAIN s |-> IF s[k] = " " THEN "_" ELSE s[k] ]

\* s.endswith(suffix)
endswith(s, suffix) ==
    Len(suffix) <= Len(s) /\ SubSeq(s, Len(s) - Len(suffix) + 1, Len(s)) = suffix

\* part in s
contains(s, part) ==
    \E k \in 0 .. (Len(s) - Len(part)) : SubSeq(s, k + 1, k + Len(part)) = part

\* the condition of line 258
name_matches(possible_name, col_lower) ==
    \/ possible_name = col_lower
    \/ endswith(col_lower, <<"_">> \o possible_name)
    \/ contains(col_lower, possible_name)

\* the index of the first entry of column_mapping, from entry k on, that
\* matches col_lower; 0 when none does
RECURSIVE first_match(_, _)
first_match(col_lower, k) ==
    IF k > Len(column_mapping) THEN 0
    ELSE IF name_matches(column_mapping[k][1], col_lower) THEN k
    ELSE first_match(col_lower, k + 1)

\* df.rename(columns={col: standard_name}, inplace=True)
rename(columns, col, standard_name) ==
    [ k \in DOMAIN columns |-> IF columns[k] = col THEN standard_name ELSE columns[k] ]

\* a test that does not look at the columns of the table
standard_name_always_free(columns, standard_name) == TRUE

\* standard_name not in df.columns
standard_name_free(columns, standard_name) ==
    \A k \in DOMAIN columns : columns[k] # standard_name

\* lines 253-263 for the first n of the columns the table had at line 253:
\* the columns of the table and the rename calls made
RECURSIVE standardized(_, _)
standardized(original, n) ==
    IF n = 0 THEN [ columns |-> original, renames |-> <<>> ]
    ELSE LET before    == standardized(original, n - 1)
             col       == original[n]
             col_lower == replace_spaces(lower(col))
             entry     == first_match(col_lower, 1)
         IN  IF entry # 0 /\ standard_name_free(before.columns, column_mapping[entry][2])
             THEN [ columns |-> rename(before.columns, col, column_mapping[entry][2]),
                    renames |-> Append(before.renames,
                                       [ col |-> col, entry |-> entry,
                                         standard_name |-> column_mapping[entry][2],
                                         columns |-> before.columns ]) ]
             ELSE before

\* the column names of the uploaded tables
UploadedColumnNames ==
    { <<"N", "a", "m", "e">>,
      <<"C", "o", "m", "p", "a", "n", "y">>,
      <<"c", "o", "m", "p", "a", "n", "y", "_", "i", "d">>,
      <<"c", "o", "m", "p", "a", "n", "y", "_", "n", "a", "m", "e">>,
      <<"S", "t", "a", "t", "e">>,
      <<"R", "e", "g", "i", "o", "n">>,
      <<"s", "t", "a", "t", "e">>,
      <<"Z", "i", "p", " ", "C", "o", "d", "e">>,
      <<"n", "o", "t", "e", "s">>,
      <<"G", "i", "v", "i", "n", "g">>,
      <<"e", "n", "v", "_", "g", "i", "v", "i", "n", "g", "_", "m", "i", "l", "l", "i", "o", "n", "s">> }

MaxColumns == 3

\* the tables: up to MaxColumns columns with pairwise distinct names
UploadedColumns ==
    UNION { { c \in [1 .. n -> UploadedColumnNames] : IsInjective(c) } :
            n \in 0 .. MaxColumns }

InitColumns ==
    /\ pc = "idle"
    /\ df \in { [ columns |-> c, rows |-> <<>> ] : c \in UploadedColumns }
    /\ incident_df = DataFrame(<<>>)
    /\ IdleSampler /\ IdleHistory /\ IdleRegistry /\ IdleOthers

\* standardize_common_columns(df), lines 177-263
StandardizeCommonColumns ==
    /\ pc = "idle"
    /\ df' = [df EXCEPT !.columns = standardized(df.columns, Len(df.columns)).columns]
    /\ calls' = standardized(df.columns, Len(df.columns)).renames
    /\ pc' = "standardized"
    /\ UNCHANGED <<i, company_data, selected_causes, incident_df, current_year,
                   historical_data, history_noise, additional_dataframes, geo_data,
                   num_companies, marketing_df, leaders_df, session_state, rng_state,
                   clock>>

NextColumns == StandardizeCommonColumns

SpecColumns == InitColumns /\ [][NextColumns]_vars

\* C24: standardize_common_columns never renames a column to a standard
\* name that is already a column of the table, so the column names of a
\* table with pairwise distinct names stay pairwise distinct, and each
\* column is renamed at most once, by the first mapping entry that matches.
C24_NamesStayDistinct ==
    pc = "standardized" =>
        /\ IsInjective(df.columns)
        /\ \A c \in DOMAIN calls :
               /\ \A k \in DOMAIN calls[c].columns :
                      calls[c].columns[k] # calls[c].standard_name
               /\ \E k \in DOMAIN calls[c].columns : calls[c].columns[k] = calls[c].col
               /\ calls[c].entry = first_match(replace_spaces(lower(calls[c].col)), 1)
               /\ \A d \in DOMAIN calls :
                      c # d => /\ calls[c].col # calls[d].col
                               /\ calls[c].col # calls[d].standard_name

\* "Company" became company_name, after which "Name", whose first match
\* gives the same standard name, kept its name
C24_Witness ==
    /\ pc = "standardized"
    /\ df.columns = << <<"c", "o", "m", "p", "a", "n", "y", "_", "n", "a", "m", "e">>,
                       <<"N", "a", "m", "e">> >>
    /\ Len(calls) = 1

---------------------------------------------------------------------------
(* SpecChat: the runs of create_chat_interface of chatbot.py on a table of *)
(* generated companies.  session_state.messages is the chat history; calls *)
(* holds the requests the last run sent to the chat completions API, each  *)
(* with its model and its list of messages.  What the API answers is an    *)
(* input of the run.                                                       *)

MaxPrompts == 2

MaxToolCalls == 2

Prompts == { "Tell me about Global Tech Corp" }

\* the tools advertised for generated data, lines 183-258
tool_names == <<"get_company_data", "get_industry_data", "get_state_data",
                "get_comparison_data">>

\* the lists of tool calls of a response: the k-th call has the id k
ToolCallLists ==
    UNION { { [ k \in 1 .. n |-> [ id |-> k, name |-> f[k],
                                  company_name |-> "Global Tech Corp" ] ] :
                f \in [1 .. n -> ElementsOf(tool_names)] } :
            n \in 1 .. MaxToolCalls }

\* what the first request returns
FirstResponses ==
    { [ kind |-> "raises" ], [ kind |-> "content" ] }
        \cup { [ kind |-> "tool_calls", tool_calls |-> t ] : t \in ToolCallLists }

\* get_company_data(company_name, df), lines 8-54, for an argument that is
\* the whole name of a company or matches none
get_company_data(company_name, table) ==
    IF \E r \in DOMAIN table.rows : table.rows[r].company_name = company_name
    THEN [ company_name |-> company_name ]
    ELSE [ error |-> "No company found" ]

\* process_tool_calls(tool_calls, df), lines 379-398, for the first n calls
RECURSIVE process_tool_calls(_, _, _)
process_tool_calls(tool_calls, table, n) ==
    IF n = 0 THEN <<>>
    ELSE LET results == process_tool_calls(tool_calls, table, n - 1)
             tool_call == tool_calls[n]
         IN  IF tool_call.name = "get_company_data"
             THEN Append(results,
                         [ tool_call_id |-> tool_call.id,
                           function_name |-> tool_call.name,
                           result |-> get_company_data(tool_call.company_name, table) ])
             ELSE results

\* lines 323-329: the tool messages of the results
tool_messages(results) ==
    [ k \in DOMAIN results |->
          [ role |-> "tool", tool_call_id |-> results[k].tool_call_id,
            name |-> results[k].function_name, content |-> results[k].result ] ]

\* st.session_state.messages[-10:]
last_ten(messages) ==
    SubSeq(messages, max(1, Len(messages) - 9), Len(messages))

\* lines 293-298
request_messages(history) ==
    << [ role |-> "system", content |-> "system_prompt" ] >> \o last_ten(history)

with_assistant_unless_error(history, full_response) ==
    IF full_response = "Error" THEN history
    ELSE Append(history, [ role |-> "assistant", content |-> full_response ])

\* line 376: the response joins the history
with_assistant(history, full_response) ==
    Append(history, [ role |-> "assistant", content |-> full_response ])

\* lines 71-73
with_messages(state) ==
    IF "messages" \in DOMAIN state THEN state ELSE dict_set(state, "messages", <<>>)

\* lines 273-372: the requests sent and the response shown for the history
\* that ends with the prompt
answer(history, api_key, first, final_ok, fallback_ok) ==
    LET messages == request_messages(history)
        first_request == [ model |-> "gpt-4-1106-preview", messages |-> messages ]
        fallback(sent, shown) ==
            [ requests |-> Append(sent, [ model |-> "gpt-3.5-turbo", messages |-> shown ]),
              full_response |-> IF fallback_ok THEN "streamed answer" ELSE "Error" ]
    IN  IF ~api_key
        THEN [ requests |-> <<>>,
               full_response |-> "Please provide an OpenAI API key to use the chat feature." ]
        ELSE IF first.kind = "raises"
        THEN fallback(<< first_request >>, messages)
        ELSE IF first.kind = "content"
        THEN [ requests |-> << first_request >>, full_response |-> "content" ]
        ELSE LET results == process_tool_calls(first.tool_calls, df, Len(first.tool_calls))
                 followup ==
                     (messages \o << [ role |-> "assistant",
                                      tool_calls |-> first.tool_calls ] >>)
                         \o tool_messages(results)
                 second_request == [ model |-> "gpt-4-1106-preview", messages |-> followup ]
             IN  IF final_ok
                 THEN [ requests |-> << first_request, second_request >>,
                        full_response |-> "streamed answer" ]
                 ELSE fallback(<< first_request, second_request >>, followup)

InitChat ==
    /\ pc = "idle"
    /\ df = DataFrame(<< CompanyData(0, NominalDraw(1)) >>)
    /\ incident_df = DataFrame(<<>>)
    /\ IdleSampler /\ IdleHistory /\ IdleRegistry /\ IdleOthers

chatUnchanged ==
    <<i, company_data, selected_causes, df, incident_df, current_year, historical_data,
      history_noise, additional_dataframes, geo_data, num_companies, marketing_df,
      leaders_df, rng_state, clock>>

\* a run of create_chat_interface with nothing in the chat input
RunWithoutPrompt ==
    /\ session_state' = with_messages(session_state)
    /\ calls' = <<>>
    /\ pc' = "shown"
    /\ UNCHANGED chatUnchanged

\* a run of create_chat_interface with a prompt in the chat input
RunWithPrompt ==
    /\ Len(with_messages(session_state).messages) < 2 * MaxPrompts
    /\ \E prompt \in Prompts, api_key \in BOOLEAN, first \in FirstResponses,
          final_ok \in BOOLEAN, fallback_ok \in BOOLEAN :
          LET state == with_messages(session_state)
              history == Append(state.messages, [ role |-> "user", content |-> prompt ])
              a == answer(history, api_key, first, final_ok, fallback_ok)
          IN  /\ session_state' =
                     [state EXCEPT !.messages =
                          with_assistant(history, a.full_response)]
              /\ calls' = a.requests
    /\ pc' = "answered"
    /\ UNCHANGED chatUnchanged

NextChat == RunWithoutPrompt \/ RunWithPrompt

SpecChat == InitChat /\ [][NextChat]_vars

\* the assistant messages with tool calls among the messages of a request
ToolCallMessages(request) ==
    { k \in DOMAIN request.messages : "tool_calls" \in DOMAIN request.messages[k] }

\* C25: the follow-up request holds, after the assistant message with the
\* tool calls, exactly one tool message for every tool call of that message,
\* carrying the id of the call, whichever of the four advertised tools the
\* calls name.
C25_OneResultPerToolCall ==
    \A c \in DOMAIN calls :
        \A k \in ToolCallMessages(calls[c]) :
            LET messages == calls[c].messages
                tool_calls == messages[k].tool_calls
            IN  /\ Len(messages) = k + Len(tool_calls)
                /\ \A t \in DOMAIN tool_calls :
                       /\ messages[k + t].role = "tool"
                       /\ messages[k + t].tool_call_id = tool_calls[t].id

\* what process_tool_calls does return: a result for every call of
\* get_company_data and for no other call
ResultsOnlyForCompanyData ==
    \A c \in DOMAIN calls :
        \A k \in ToolCallMessages(calls[c]) :
            LET messages == calls[c].messages
                tool_calls == messages[k].tool_calls
                answered == { t \in DOMAIN tool_calls : tool_calls[t].name = "get_company_data" }
            IN  /\ Len(messages) = k + Cardinality(answered)
                /\ \A m \in (k + 1) .. Len(messages) :
                       /\ messages[m].role = "tool"
                       /\ \E t \in answered : messages[m].tool_call_id = tool_calls[t].id

\* the history alternates user, assistant, from a user message on
AlternatingHistory ==
    "messages" \in DOMAIN session_state =>
        /\ Len(session_state.messages) % 2 = 0
        /\ \A k \in DOMAIN session_state.messages :
               session_state.messages[k].role = IF k % 2 = 1 THEN "user" ELSE "assistant"

\* a step keeps the history or appends a user and an assistant message to it
AppendsUserThenAssistant ==
    LET before == with_messages(session_state).messages
        after  == session_state'.messages
    IN  \/ after = before
        \/ /\ Len(after) = Len(before) + 2
           /\ SubSeq(after, 1, Len(before)) = before
           /\ after[Len(before) + 1].role = "user"
           /\ after[Len(before) + 2].role = "assistant"
           /\ pc' = "answered"

\* C26: each submitted prompt appends exactly one user message followed by
\* exactly one assistant message to the history, also without an API key and
\* when a request raises; the history has even length, alternates user and
\* assistant, and no message is removed or reordered.
C26_UserThenAssistant ==
    /\ []AlternatingHistory
    /\ [][AppendsUserThenAssistant /\ (pc' = "answered" => session_state' # session_state)]_vars

\* a second prompt answered with an error after a first answered without a key
C26_Witness ==
    /\ pc = "answered"
    /\ Len(session_state.messages) = 4
    /\ session_state.messages[2].content
           = "Please provide an OpenAI API key to use the chat feature."
    /\ session_state.messages[4].content = "Error"
    /\ Len(calls) = 3

---------------------------------------------------------------------------
(* the environmental-justice columns of the table get_sample_data builds *)

\* C29: in the geographic table built from a population and the incident
\* table registered for it, every state row has ej_incident_count at most
\* incident_count and ej_incident_pct between 0 and 100.
C29_EjWithinIncidents ==
    pc = "aggregated" =>
        \A g \in DOMAIN geo_data.rows :
            LET row == geo_data.rows[g]
            IN  /\ row.ej_incident_count \in 0 .. row.incident_count
                /\ row.ej_incident_pct \in 0 .. 100

\* a state with incidents inside and outside environmental-justice communities
C29_Witness ==
    /\ pc = "aggregated"
    /\ \E g \in DOMAIN geo_data.rows :
           /\ geo_data.rows[g].ej_incident_count > 0
           /\ geo_data.rows[g].ej_incident_count < geo_data.rows[g].incident_count
           /\ geo_data.rows[g].ej_incident_pct \in 1 .. 99

====
